---- MODULE Spec2Model ----
(***************************************************************************)
(* CODEOWNERS analyzer of the pull-request "Files changed" page: parsing   *)
(* of the rule text, last-match-wins owner resolution with its per-file    *)
(* cache, the coverage analysis and the search for combined owner sets,    *)
(* driven by updateChangedFiles / updateUI.                                *)
(*                                                                         *)
(* JavaScript strings are sequences of one-character strings.  A JS Set or *)
(* Map whose iteration order is observable is a sequence without repeated  *)
(* elements, in insertion order.                                           *)
(***************************************************************************)
EXTENDS Integers, Sequences, FiniteSets, TLC

\* v evaluated once, then Body of its value
Bind(v, Body(_)) == CHOOSE r \in { Body(x) : x \in {v} } : TRUE

(***************************************************************************)
(* String primitives                                                       *)
(***************************************************************************)
Range(s) == { s[i] : i \in 1..Len(s) }

\* String.prototype.startsWith
StartsWith(s, p) ==
    /\ Len(p) <= Len(s)
    /\ SubSeq(s, 1, Len(p)) = p

\* String.prototype.endsWith
EndsWith(s, p) ==
    /\ Len(p) <= Len(s)
    /\ SubSeq(s, Len(s) - Len(p) + 1, Len(s)) = p

\* positions at which sub occurs in s
Occurrences(s, sub) ==
    { i \in 1..(Len(s) - Len(sub) + 1) : SubSeq(s, i, i + Len(sub) - 1) = sub }

\* String.prototype.includes
Includes(s, sub) == Occurrences(s, sub) # {}

SetMin(S) == CHOOSE x \in S : \A y \in S : x <= y

SetMax(S) == CHOOSE x \in S : \A y \in S : x >= y

\* String.prototype.split(sep), sep non-empty: left-to-right, non-overlapping
RECURSIVE Split(_, _)
Split(s, sep) ==
    IF ~Includes(s, sep)
    THEN << s >>
    ELSE Bind(SetMin(Occurrences(s, sep)),
              LAMBDA i :
                  Bind(SubSeq(s, i + Len(sep), Len(s)),
                       LAMBDA rest : << SubSeq(s, 1, i - 1) >> \o Split(rest, sep)))

\* pattern.replace(/^\//, '')
StripLeadingSlash(s) ==
    IF Len(s) > 0 /\ s[1] = "/" THEN Tail(s) ELSE s

IsSpace(c) == c \in {" ", "\t"}

\* String.prototype.trim
RECURSIVE TrimLeft(_)
TrimLeft(s) ==
    IF Len(s) > 0 /\ IsSpace(s[1])
    THEN Bind(Tail(s), LAMBDA rest : TrimLeft(rest))
    ELSE s

RECURSIVE TrimRight(_)
TrimRight(s) ==
    IF Len(s) > 0 /\ IsSpace(s[Len(s)])
    THEN Bind(SubSeq(s, 1, Len(s) - 1), LAMBDA rest : TrimRight(rest))
    ELSE s

Trim(s) == Bind(TrimRight(s), LAMBDA t : TrimLeft(t))

\* s.split(/\s+/) of a trimmed, non-empty string: the maximal runs of
\* non-space characters
RECURSIVE SplitWhitespace(_)
SplitWhitespace(s) ==
    IF \A i \in 1..Len(s) : ~IsSpace(s[i])
    THEN << s >>
    ELSE Bind(SetMin({ j \in 1..Len(s) : IsSpace(s[j]) }),
              LAMBDA i :
                  Bind(TrimLeft(SubSeq(s, i, Len(s))),
                       LAMBDA rest : << SubSeq(s, 1, i - 1) >> \o SplitWhitespace(rest)))

(***************************************************************************)
(* doesPatternMatch                                                        *)
(***************************************************************************)
\* The anchored expression ^...$ built from a pattern by the three replace
\* calls: "." is escaped to a literal dot, "*" becomes [^/]* (the "**" case
\* never reaches this point, see DoesPatternMatch), every other character
\* of the modelled alphabet stands for itself.
RECURSIVE RegexTest(_, _)
RegexTest(regexPattern, filePath) ==
    IF Len(regexPattern) = 0
    THEN Len(filePath) = 0
    ELSE IF regexPattern[1] = "*"
         THEN \/ RegexTest(Tail(regexPattern), filePath)
              \/ /\ Len(filePath) > 0
                 /\ filePath[1] # "/"
                 /\ RegexTest(regexPattern, Tail(filePath))
         ELSE /\ Len(filePath) > 0
              /\ filePath[1] = regexPattern[1]
              /\ RegexTest(Tail(regexPattern), Tail(filePath))

\* new RegExp(regexPattern) throws: of the modelled alphabet only "(" is a
\* regular-expression metacharacter that the replace calls leave in place,
\* and no ")" closes it (SyntaxError: unterminated group).
RegexThrows(pattern) == "(" \in Range(pattern)

\* a doesPatternMatch whose catch block reports no match
DoesPatternMatchNoFallback(pattern0, filePath0) ==
    LET pattern  == StripLeadingSlash(pattern0)
        filePath == StripLeadingSlash(filePath0)
    IN  IF pattern = filePath
        THEN TRUE
        ELSE IF EndsWith(pattern, << "/" >>)
        THEN StartsWith(filePath, pattern)
        ELSE IF Includes(pattern, << "*", "." >>)
        THEN LET parts     == Split(pattern, << "*", "." >>)
                 extension == parts[Len(parts)]
             IN  EndsWith(filePath, << "." >> \o extension)
        ELSE IF Includes(pattern, << "*", "*" >>)
        THEN LET parts == Split(pattern, << "*", "*" >>)
                 start == parts[1]
                 end   == parts[2]
             IN  IF Len(start) > 0 /\ ~StartsWith(filePath, start)
                 THEN FALSE
                 ELSE IF Len(end) > 0 /\ ~EndsWith(filePath, end)
                 THEN FALSE
                 ELSE TRUE
        ELSE IF ~Includes(pattern, << "*" >>) /\ ~Includes(pattern, << "." >>)
        THEN StartsWith(filePath, pattern \o << "/" >>)
        ELSE IF RegexThrows(pattern)
        THEN FALSE
        ELSE RegexTest(pattern, filePath)

\* a doesPatternMatch that asks for "**" before "*."
DoesPatternMatchDeepFirst(pattern0, filePath0) ==
    LET pattern  == StripLeadingSlash(pattern0)
        filePath == StripLeadingSlash(filePath0)
    IN  IF pattern = filePath
        THEN TRUE
        ELSE IF EndsWith(pattern, << "/" >>)
        THEN StartsWith(filePath, pattern)
        ELSE IF Includes(pattern, << "*", "*" >>)
        THEN LET parts == Split(pattern, << "*", "*" >>)
                 start == parts[1]
                 end   == parts[2]
             IN  IF Len(start) > 0 /\ ~StartsWith(filePath, start)
                 THEN FALSE
                 ELSE IF Len(end) > 0 /\ ~EndsWith(filePath, end)
                 THEN FALSE
                 ELSE TRUE
        ELSE IF Includes(pattern, << "*", "." >>)
        THEN LET parts     == Split(pattern, << "*", "." >>)
                 extension == parts[Len(parts)]
             IN  EndsWith(filePath, << "." >> \o extension)
        ELSE IF ~Includes(pattern, << "*" >>) /\ ~Includes(pattern, << "." >>)
        THEN StartsWith(filePath, pattern \o << "/" >>)
        ELSE IF RegexThrows(pattern)
        THEN StartsWith(filePath, pattern) \/ filePath = pattern
        ELSE RegexTest(pattern, filePath)

\* doesPatternMatch(pattern, filePath)
DoesPatternMatch(pattern0, filePath0) ==
    LET pattern  == StripLeadingSlash(pattern0)
        filePath == StripLeadingSlash(filePath0)
    IN  IF pattern = filePath
        THEN TRUE
        ELSE IF EndsWith(pattern, << "/" >>)
        THEN StartsWith(filePath, pattern)
        ELSE IF Includes(pattern, << "*", "." >>)
        THEN LET parts     == Split(pattern, << "*", "." >>)
                 extension == parts[Len(parts)]
             IN  EndsWith(filePath, << "." >> \o extension)
        ELSE IF Includes(pattern, << "*", "*" >>)
        THEN LET parts == Split(pattern, << "*", "*" >>)
                 start == parts[1]
                 end   == parts[2]
             IN  IF Len(start) > 0 /\ ~StartsWith(filePath, start)
                 THEN FALSE
                 ELSE IF Len(end) > 0 /\ ~EndsWith(filePath, end)
                 THEN FALSE
                 ELSE TRUE
        ELSE IF ~Includes(pattern, << "*" >>) /\ ~Includes(pattern, << "." >>)
        THEN StartsWith(filePath, pattern \o << "/" >>)
        ELSE IF RegexThrows(pattern)
        THEN StartsWith(filePath, pattern) \/ filePath = pattern
        ELSE RegexTest(pattern, filePath)

(***************************************************************************)
(* Values                                                                  *)
(***************************************************************************)
\* JavaScript undefined / null where a string or a text is expected: the
\* empty sequence, which no owner name and no split text equals
Undefined == << >>

\* new Set().add(x): insertion order is kept, a present element stays put
SetAdd(s, x) == IF x \in Range(s) THEN s ELSE Append(s, x)

\* new Set(array)
RECURSIVE NewSet(_)
NewSet(arr) ==
    IF Len(arr) = 0 THEN << >>
    ELSE Bind(NewSet(SubSeq(arr, 1, Len(arr) - 1)),
              LAMBDA s : SetAdd(s, arr[Len(arr)]))

\* Array.prototype.filter(x => x !== v)
RECURSIVE FilterNot(_, _)
FilterNot(arr, v) ==
    IF Len(arr) = 0 THEN << >>
    ELSE IF arr[1] = v THEN FilterNot(Tail(arr), v)
         ELSE << arr[1] >> \o FilterNot(Tail(arr), v)

(***************************************************************************)
(* Rule lines: the statements shared by parseCodeowners and getFileOwners  *)
(* that turn one line of the rule text into a pattern and its owners       *)
(***************************************************************************)
\* if (line.startsWith('#') || !line.trim()) continue;
\* const [pattern, ...owners] = line.trim().split(/\s+/);
\* if (!pattern || owners.length === 0) continue;
LineIsRule(line) ==
    /\ ~StartsWith(line, << "#" >>)
    /\ Bind(Trim(line), LAMBDA t : Len(t) > 0 /\ Len(SplitWhitespace(t)) > 1)

LinePattern(line) == Bind(Trim(line), LAMBDA t : SplitWhitespace(t)[1])

LineOwners(line) == Bind(Trim(line), LAMBDA t : Tail(SplitWhitespace(t)))

(***************************************************************************)
(* parseCodeowners: the owner-keyed map of compiled expressions            *)
(***************************************************************************)
\* A compiled expression is a sequence of atoms: a literal character, "."
\* (any character), [^/] , each possibly under a "*" quantifier, an optional
\* non-capturing group (?:...)? , or the end anchor $.
Lit(c)       == [k |-> "lit", c |-> c, star |-> FALSE, g |-> << >>]
AnyChar      == [k |-> "any", c |-> "", star |-> FALSE, g |-> << >>]
NotSlashStar == [k |-> "notslash", c |-> "", star |-> TRUE, g |-> << >>]
OptGroup(g)  == [k |-> "opt", c |-> "", star |-> FALSE, g |-> g]
IsAlnum(c) == c \in {"a", "b", "c", "d", "j", "m", "s", "o", "r", "x", "1", "2", "3"}

\* .replace(/^\//, '') and .replace(/\/$/, '') on the expression text
StripSlashAtoms(toks) ==
    LET a == IF Len(toks) > 0 /\ toks[1] = Lit("/") THEN Tail(toks) ELSE toks
    IN  IF Len(a) > 0 /\ a[Len(a)] = Lit("/") THEN SubSeq(a, 1, Len(a) - 1) ELSE a

\* pattern.match(/\/\*\*\/\*\.([a-zA-Z0-9]+)$/)
DeepExt == << "/", "*", "*", "/", "*", "." >>

FileExtensionMatch(pattern) ==
    \E i \in Occurrences(pattern, DeepExt) :
        /\ i + Len(DeepExt) <= Len(pattern)
        /\ \A j \in (i + Len(DeepExt))..Len(pattern) : IsAlnum(pattern[j])

\* branch 1: basePath with its "*" left in place as quantifiers, then
\* (?:/.*)?\.<extension>$ ; throws is set when new RegExp throws (a "*"
\* with nothing to repeat)
RECURSIVE QuantifyAtoms(_, _)
QuantifyAtoms(chars, acc) ==
    IF acc.throws \/ Len(chars) = 0 THEN acc
    ELSE IF chars[1] = "*"
         THEN IF Len(acc.atoms) = 0 \/ acc.atoms[Len(acc.atoms)].star
              THEN [acc EXCEPT !.throws = TRUE]
              ELSE Bind([acc EXCEPT !.atoms[Len(acc.atoms)].star = TRUE],
                        LAMBDA acc1 : QuantifyAtoms(Tail(chars), acc1))
         ELSE Bind([acc EXCEPT !.atoms = Append(@, Lit(chars[1]))],
                   LAMBDA acc1 : QuantifyAtoms(Tail(chars), acc1))

ExtensionAtoms(pattern) ==
    LET i         == CHOOSE j \in Occurrences(pattern, DeepExt) :
                         /\ j + Len(DeepExt) <= Len(pattern)
                         /\ \A n \in (j + Len(DeepExt))..Len(pattern) : IsAlnum(pattern[n])
        extension == SubSeq(pattern, i + Len(DeepExt), Len(pattern))
        basePath  == SubSeq(pattern, 1,
                         SetMin(Occurrences(pattern, << "/", "*", "*", "/" >>)) - 1)
        base      == QuantifyAtoms(StripLeadingSlash(basePath),
                                   [throws |-> FALSE, atoms |-> << >>])
    IN  [base EXCEPT !.atoms =
            @ \o << OptGroup(<< Lit("/"), [AnyChar EXCEPT !.star = TRUE] >>), Lit(".") >>
              \o [n \in 1..Len(extension) |-> Lit(extension[n])]
              \o << [k |-> "end", c |-> "", star |-> FALSE, g |-> << >>] >>]

\* branch 2: every "**/" becomes (?:.*/)? and then every "*", the one of
\* the inserted group included, becomes [^/]*
RECURSIVE DirAtoms(_)
DirAtoms(p) ==
    IF Len(p) = 0 THEN << >>
    ELSE IF StartsWith(p, << "*", "*", "/" >>)
         THEN << OptGroup(<< AnyChar, NotSlashStar, Lit("/") >>) >> \o DirAtoms(SubSeq(p, 4, Len(p)))
         ELSE IF p[1] = "*"
              THEN << NotSlashStar >> \o DirAtoms(Tail(p))
              ELSE << Lit(p[1]) >> \o DirAtoms(Tail(p))

\* branch 3: every "**" becomes .* and then every "*", the one of the
\* inserted ".*" included, becomes [^/]*
RECURSIVE PlainAtoms(_)
PlainAtoms(p) ==
    IF Len(p) = 0 THEN << >>
    ELSE IF StartsWith(p, << "*", "*" >>)
         THEN << AnyChar, NotSlashStar >> \o PlainAtoms(SubSeq(p, 3, Len(p)))
         ELSE IF p[1] = "*"
              THEN << NotSlashStar >> \o PlainAtoms(Tail(p))
              ELSE << Lit(p[1]) >> \o PlainAtoms(Tail(p))

\* the expression stored for a pattern: ^cleanPattern, or, when that does
\* not compile, the unanchored literal text of the pattern
CompilePattern(pattern) ==
    LET compiled == IF FileExtensionMatch(pattern)
                    THEN ExtensionAtoms(pattern)
                    ELSE IF Includes(pattern, << "*", "*", "/" >>)
                    THEN [throws |-> FALSE, atoms |-> StripSlashAtoms(DirAtoms(pattern))]
                    ELSE [throws |-> FALSE, atoms |-> StripSlashAtoms(PlainAtoms(pattern))]
    IN  IF compiled.throws
        THEN [anchored |-> FALSE, literal |-> StripLeadingSlash(pattern), atoms |-> << >>]
        ELSE [anchored |-> TRUE, literal |-> << >>, atoms |-> compiled.atoms]

\* RegExp.prototype.test
RECURSIVE AtomsMatch(_, _)
AtomsMatch(toks, s) ==
    IF Len(toks) = 0 THEN TRUE
    ELSE LET t    == toks[1]
             rest == Tail(toks)
             ok   == /\ Len(s) > 0
                     /\ \/ t.k = "lit" /\ s[1] = t.c
                        \/ t.k = "any"
                        \/ t.k = "notslash" /\ s[1] # "/"
         IN  IF t.k = "end" THEN Len(s) = 0 /\ AtomsMatch(rest, s)
             ELSE IF t.k = "opt" THEN AtomsMatch(t.g \o rest, s) \/ AtomsMatch(rest, s)
             ELSE IF t.star THEN AtomsMatch(rest, s) \/ (ok /\ AtomsMatch(toks, Tail(s)))
             ELSE ok /\ AtomsMatch(rest, Tail(s))

RECURSIVE MapAddOwners(_, _, _)
MapAddOwners(map, owners, patternObj) ==
    LET \* codeownersMap: the owners in insertion order, each with its set of
        \* { regex, originalPattern } objects (one fresh object per rule line)
        MapOwners == [i \in 1..Len(map) |-> map[i].owner]
    IN
    IF Len(owners) = 0 THEN map
    ELSE LET owner == owners[1]
         IN  Bind(IF owner \in Range(MapOwners)
                  THEN [i \in 1..Len(map) |->
                           IF map[i].owner = owner
                           THEN [map[i] EXCEPT !.patterns = Append(@, patternObj)]
                           ELSE map[i]]
                  ELSE Append(map, [owner |-> owner, patterns |-> << patternObj >>]),
                  LAMBDA m1 : MapAddOwners(m1, Tail(owners), patternObj))

RECURSIVE ParseLines(_, _)
ParseLines(lines, map) ==
    IF Len(lines) = 0 THEN map
    ELSE LET line == lines[1]
         IN  IF ~LineIsRule(line)
             THEN ParseLines(Tail(lines), map)
             ELSE Bind([regex |-> CompilePattern(LinePattern(line)),
                        originalPattern |-> LinePattern(line)],
                       LAMBDA patternObj :
                           Bind(MapAddOwners(map, LineOwners(line), patternObj),
                                LAMBDA m1 : ParseLines(Tail(lines), m1)))

\* the content of the rule file as the sequence of its lines
\* (content.split('\n')); the empty string is the one empty line
EmptyContent == << << >> >>

ParseCodeowners(this, content) ==
    IF content = EmptyContent
    THEN [this EXCEPT !.codeownersMap = << >>]
    ELSE Bind(ParseLines(content, << >>),
              LAMBDA map : [this EXCEPT !.codeownersMap = map, !.rawCodeowners = content])

(***************************************************************************)
(* The analyzer object                                                     *)
(***************************************************************************)
MAX_COMBINATION_SIZE == 5

MAX_COMBINATIONS_TO_SHOW == 15

EmptyCache == [f \in {} |-> << >>]

\* constructor
NewAnalyzer ==
    [codeownersMap      |-> << >>,
     changedFiles       |-> << >>,
     approvedReviewers  |-> {},
     fileOwnersCache    |-> EmptyCache,
     rawCodeowners      |-> Undefined,
     prAuthor           |-> Undefined,
     filesWithOwners    |-> {},
     filesWithoutOwners |-> {}]

(***************************************************************************)
(* getFileOwners                                                           *)
(***************************************************************************)
\* a loop that stops at the first matching rule: first match wins
RECURSIVE ScanLinesFirstMatch(_, _, _, _)
ScanLinesFirstMatch(lines, filePath, prAuthor, lastMatchedOwners) ==
    IF Len(lines) = 0 THEN lastMatchedOwners
    ELSE LET line == lines[1]
         IN  IF LineIsRule(line)
                /\ DoesPatternMatch(StripLeadingSlash(LinePattern(line)), filePath)
             THEN NewSet(FilterNot(LineOwners(line), prAuthor))
             ELSE ScanLinesFirstMatch(Tail(lines), filePath, prAuthor, lastMatchedOwners)

\* the loop over the lines of the raw rule text: every matching rule
\* overwrites lastMatchedOwners
RECURSIVE ScanLines(_, _, _, _)
ScanLines(lines, filePath, prAuthor, lastMatchedOwners) ==
    IF Len(lines) = 0 THEN lastMatchedOwners
    ELSE LET line == lines[1]
         IN  IF ~LineIsRule(line)
             THEN ScanLines(Tail(lines), filePath, prAuthor, lastMatchedOwners)
             ELSE LET normalizedPattern == StripLeadingSlash(LinePattern(line))
                  IN  IF DoesPatternMatch(normalizedPattern, filePath)
                      THEN Bind(NewSet(FilterNot(LineOwners(line), prAuthor)),
                                LAMBDA owners : ScanLines(Tail(lines), filePath, prAuthor, owners))
                      ELSE ScanLines(Tail(lines), filePath, prAuthor, lastMatchedOwners)

\* the fallback over codeownersMap: matchingPatterns maps each matching
\* original pattern to its owners, in insertion order
RECURSIVE CollectPatterns(_, _, _, _)
CollectPatterns(patterns, owner, filePath, matchingPatterns) ==
    LET RegexObjTest(regex) ==
            IF regex.anchored
            THEN AtomsMatch(regex.atoms, filePath)
            ELSE Includes(filePath, regex.literal)
    IN
    IF Len(patterns) = 0 THEN matchingPatterns
    ELSE LET patternObj == patterns[1]
             patternStr == patternObj.originalPattern
             known      == { i \in 1..Len(matchingPatterns) :
                               matchingPatterns[i].pattern = patternStr }
         IN  Bind(IF ~RegexObjTest(patternObj.regex)
                  THEN matchingPatterns
                  ELSE IF known = {}
                  THEN Append(matchingPatterns,
                              [pattern |-> patternStr, owners |-> << owner >>])
                  ELSE [i \in 1..Len(matchingPatterns) |->
                           IF i \in known
                           THEN [matchingPatterns[i] EXCEPT !.owners = SetAdd(@, owner)]
                           ELSE matchingPatterns[i]],
                  LAMBDA m1 : CollectPatterns(Tail(patterns), owner, filePath, m1))

RECURSIVE CollectOwners(_, _, _, _)
CollectOwners(map, filePath, prAuthor, matchingPatterns) ==
    IF Len(map) = 0 THEN matchingPatterns
    ELSE IF map[1].owner = prAuthor
         THEN CollectOwners(Tail(map), filePath, prAuthor, matchingPatterns)
         ELSE Bind(CollectPatterns(map[1].patterns, map[1].owner, filePath, matchingPatterns),
                   LAMBDA m1 : CollectOwners(Tail(map), filePath, prAuthor, m1))

FallbackOwners(this, filePath) ==
    Bind(CollectOwners(this.codeownersMap, filePath, this.prAuthor, << >>),
         LAMBDA matchingPatterns :
             IF Len(matchingPatterns) > 0
             THEN matchingPatterns[Len(matchingPatterns)].owners
             ELSE << >>)

\* a cache test that takes an empty stored set for a missing entry
CacheHasNonEmpty(cache, filePath) ==
    filePath \in DOMAIN cache /\ Len(cache[filePath]) > 0

\* the cache holds a file once a set, empty or not, was stored for it
CacheHas(cache, filePath) == filePath \in DOMAIN cache

\* a getFileOwners that tracks every resolved file as a file with owners
GetFileOwnersTracksAllAsOwned(this, filePath) ==
    IF CacheHas(this.fileOwnersCache, filePath)
    THEN [this |-> this, ret |-> this.fileOwnersCache[filePath]]
    ELSE Bind(IF this.rawCodeowners # Undefined
              THEN ScanLines(this.rawCodeowners, filePath, this.prAuthor, << >>)
              ELSE FallbackOwners(this, filePath),
              LAMBDA lastMatchedOwners :
                  [this |-> [this EXCEPT
                                !.filesWithOwners = @ \cup {filePath},
                                !.fileOwnersCache =
                                    [f \in DOMAIN @ \cup {filePath} |->
                                        IF f = filePath THEN lastMatchedOwners ELSE @[f]]],
                   ret  |-> lastMatchedOwners])

\* returns the analyzer after the call and the returned set
GetFileOwners(this, filePath) ==
    IF CacheHas(this.fileOwnersCache, filePath)
    THEN [this |-> this, ret |-> this.fileOwnersCache[filePath]]
    ELSE Bind(IF this.rawCodeowners # Undefined
              THEN ScanLines(this.rawCodeowners, filePath, this.prAuthor, << >>)
              ELSE FallbackOwners(this, filePath),
              LAMBDA lastMatchedOwners :
                  [this |-> [this EXCEPT
                                !.filesWithOwners =
                                    IF Len(lastMatchedOwners) > 0 THEN @ \cup {filePath} ELSE @,
                                !.filesWithoutOwners =
                                    IF Len(lastMatchedOwners) > 0 THEN @ ELSE @ \cup {filePath},
                                !.fileOwnersCache =
                                    [f \in DOMAIN @ \cup {filePath} |->
                                        IF f = filePath THEN lastMatchedOwners ELSE @[f]]],
                   ret  |-> lastMatchedOwners])

(***************************************************************************)
(* findCombinedOwnerSet                                                    *)
(***************************************************************************)
\* getCombinations: the k-element combinations of arr in the order the
\* backtracking produces them (lexicographic in the indices)
RECURSIVE GetCombinations(_, _)
GetCombinations(arr, k) ==
    IF k = 0 THEN << << >> >>
    ELSE IF Len(arr) < k THEN << >>
    ELSE Bind(GetCombinations(Tail(arr), k - 1),
              LAMBDA withFirst :
                  [n \in 1..Len(withFirst) |-> << arr[1] >> \o withFirst[n]]
                  \o GetCombinations(Tail(arr), k))

\* ownerToFiles: the owners in insertion order, each with its set of files
OwnerFiles(ownerToFiles, owner) ==
    LET i == CHOOSE j \in 1..Len(ownerToFiles) : ownerToFiles[j].owner = owner
    IN  ownerToFiles[i].files

GetCoverage(ownerToFiles, combination) ==
    UNION { OwnerFiles(ownerToFiles, combination[n]) : n \in 1..Len(combination) }

\* a redundancy test that never skips a combination
NeverRedundant(combinedSets, combination) == FALSE

IsRedundantCombination(combinedSets, combination) ==
    \E n \in 1..Len(combinedSets) :
        \A m \in 1..Len(combinedSets[n]) : combinedSets[n][m] \in Range(combination)

\* a loop body without the limit on the number of accepted combinations
TryCombinationUncapped(this, ownerToFiles, combination, combinedSets) ==
    IF IsRedundantCombination(combinedSets, combination)
    THEN [sets |-> combinedSets, stop |-> FALSE]
    ELSE IF Cardinality(GetCoverage(ownerToFiles, combination))
               = Cardinality(this.filesWithOwners)
    THEN [sets |-> Append(combinedSets, combination), stop |-> FALSE]
    ELSE [sets |-> combinedSets, stop |-> FALSE]

\* a loop body that accepts a combination whose files include every file
\* with owners, whatever their number
TryCombinationAnyCover(this, ownerToFiles, combination, combinedSets) ==
    IF Len(combinedSets) >= MAX_COMBINATIONS_TO_SHOW
    THEN [sets |-> combinedSets, stop |-> TRUE]
    ELSE IF IsRedundantCombination(combinedSets, combination)
    THEN [sets |-> combinedSets, stop |-> FALSE]
    ELSE IF this.filesWithOwners \subseteq GetCoverage(ownerToFiles, combination)
    THEN [sets |-> Append(combinedSets, combination), stop |-> FALSE]
    ELSE [sets |-> combinedSets, stop |-> FALSE]

\* a loop body that passes over combinations with a member who has approved
TryCombinationSkipApproved(this, ownerToFiles, combination, combinedSets) ==
    IF Len(combinedSets) >= MAX_COMBINATIONS_TO_SHOW
    THEN [sets |-> combinedSets, stop |-> TRUE]
    ELSE IF IsRedundantCombination(combinedSets, combination)
    THEN [sets |-> combinedSets, stop |-> FALSE]
    ELSE IF /\ Cardinality(GetCoverage(ownerToFiles, combination))
                  = Cardinality(this.filesWithOwners)
            /\ Range(combination) \cap this.approvedReviewers = {}
    THEN [sets |-> Append(combinedSets, combination), stop |-> FALSE]
    ELSE [sets |-> combinedSets, stop |-> FALSE]

\* the body of the inner loop for one combination; stop is the
\* "break combinationLoop"
TryCombination(this, ownerToFiles, combination, combinedSets) ==
    IF Len(combinedSets) >= MAX_COMBINATIONS_TO_SHOW
    THEN [sets |-> combinedSets, stop |-> TRUE]
    ELSE IF IsRedundantCombination(combinedSets, combination)
    THEN [sets |-> combinedSets, stop |-> FALSE]
    ELSE IF Cardinality(GetCoverage(ownerToFiles, combination))
               = Cardinality(this.filesWithOwners)
    THEN [sets |-> Append(combinedSets, combination), stop |-> FALSE]
    ELSE [sets |-> combinedSets, stop |-> FALSE]

\* the inner loop over combinations[lo .. hi] in order, started with
\* acc = [sets, stop]: the first half of the range runs before the second,
\* and nothing runs after a break
RECURSIVE TryCombinations(_, _, _, _, _, _)
TryCombinations(this, ownerToFiles, combinations, lo, hi, acc) ==
    IF acc.stop \/ lo > hi THEN acc
    ELSE IF lo = hi
    THEN TryCombination(this, ownerToFiles, combinations[lo], acc.sets)
    ELSE Bind((lo + hi) \div 2,
              LAMBDA mid :
                  Bind(TryCombinations(this, ownerToFiles, combinations, lo, mid, acc),
                       LAMBDA r :
                           TryCombinations(this, ownerToFiles, combinations, mid + 1, hi, r)))

Min(a, b) == IF a <= b THEN a ELSE b

\* the outer loop over the sizes i = 2 .. min(MAX_COMBINATION_SIZE, n)
RECURSIVE CombinationLoop(_, _, _, _, _)
CombinationLoop(this, ownerToFiles, partialOwners, i, combinedSets) ==
    IF i > Min(MAX_COMBINATION_SIZE, Len(partialOwners))
    THEN combinedSets
    ELSE Bind(GetCombinations(partialOwners, i),
              LAMBDA combinations :
                  Bind(TryCombinations(this, ownerToFiles, combinations, 1, Len(combinations),
                                       [sets |-> combinedSets, stop |-> FALSE]),
                       LAMBDA r :
                           IF r.stop THEN r.sets
                           ELSE CombinationLoop(this, ownerToFiles, partialOwners, i + 1, r.sets)))

ApprovedCount(this, combination) ==
    Cardinality({ n \in 1..Len(combination) : combination[n] \in this.approvedReviewers })

\* Array.prototype.sort is stable: an element goes behind every element
\* that does not compare greater than it
RECURSIVE SortSets(_, _)
SortSets(this, sets) ==
    LET \* the comparator of combinedSets.sort
        CompareSets(a, b) ==
            IF Len(a) # Len(b) THEN Len(a) - Len(b)
            ELSE ApprovedCount(this, b) - ApprovedCount(this, a)
    IN
    IF Len(sets) <= 1 THEN sets
    ELSE Bind(SortSets(this, SubSeq(sets, 1, Len(sets) - 1)),
              LAMBDA sorted :
                  LET x      == sets[Len(sets)]
                      before == { n \in 1..Len(sorted) : CompareSets(sorted[n], x) <= 0 }
                  IN  Bind(IF before = {} THEN 0 ELSE SetMax(before),
                           LAMBDA pos : SubSeq(sorted, 1, pos) \o << x >>
                                            \o SubSeq(sorted, pos + 1, Len(sorted))))

RECURSIVE SelectSeq2(_, _, _)
SelectSeq2(s, keep, n) ==
    IF n > Len(s) THEN << >>
    ELSE IF s[n] \in keep THEN << s[n] >> \o SelectSeq2(s, keep, n + 1)
         ELSE SelectSeq2(s, keep, n + 1)

\* the owners that are neither full-coverage owners nor the author, in
\* the order of ownerToFiles
PartialOwners(this, ownerToFiles) ==
    LET owners == [n \in 1..Len(ownerToFiles) |-> ownerToFiles[n].owner]
        fullCoverageOwners ==
            { o \in Range(owners) :
                /\ o # this.prAuthor
                /\ Cardinality(OwnerFiles(ownerToFiles, o)) = Cardinality(this.filesWithOwners) }
    IN  SelectSeq2(owners,
                   { o \in Range(owners) : o \notin fullCoverageOwners /\ o # this.prAuthor },
                   1)

FindCombinedOwnerSet(this, ownerToFiles) ==
    Bind(PartialOwners(this, ownerToFiles),
         LAMBDA partialOwners :
             IF Len(partialOwners) = 0 THEN << >>
             ELSE Bind(CombinationLoop(this, ownerToFiles, partialOwners, 2, << >>),
                       LAMBDA combinedSets : SortSets(this, combinedSets)))

(***************************************************************************)
(* analyzeOwnership                                                        *)
(***************************************************************************)
RECURSIVE AddOwners(_, _, _, _)
AddOwners(ownerToFiles, fileOwners, prAuthor, file) ==
    IF Len(fileOwners) = 0 THEN ownerToFiles
    ELSE LET owner == fileOwners[1]
         IN  Bind(IF owner = prAuthor THEN ownerToFiles
                  ELSE IF \E n \in 1..Len(ownerToFiles) : ownerToFiles[n].owner = owner
                  THEN [n \in 1..Len(ownerToFiles) |->
                           IF ownerToFiles[n].owner = owner
                           THEN [ownerToFiles[n] EXCEPT !.files = @ \cup {file}]
                           ELSE ownerToFiles[n]]
                  ELSE Append(ownerToFiles, [owner |-> owner, files |-> {file}]),
                  LAMBDA m1 : AddOwners(m1, Tail(fileOwners), prAuthor, file))

\* this.changedFiles.forEach(file => ...): the analyzer after the
\* getFileOwners calls, and ownerToFiles
RECURSIVE MapOwnersToFiles(_, _, _)
MapOwnersToFiles(this, files, ownerToFiles) ==
    IF Len(files) = 0
    THEN [this |-> this, ownerToFiles |-> ownerToFiles]
    ELSE Bind(GetFileOwners(this, files[1]),
              LAMBDA r :
                  Bind(AddOwners(ownerToFiles, r.ret, this.prAuthor, files[1]),
                       LAMBDA m1 : MapOwnersToFiles(r.this, Tail(files), m1)))

\* a scan of ownerToFiles that stops at the first full-coverage owner
FullCoverageOwnersFirstOnly(this, ownerToFiles) ==
    LET owners == [n \in 1..Len(ownerToFiles) |-> ownerToFiles[n].owner]
        full   == SelectSeq2(owners,
                             { o \in Range(owners) :
                                 Cardinality(OwnerFiles(ownerToFiles, o))
                                     = Cardinality(this.filesWithOwners) },
                             1)
    IN  IF Len(full) = 0 THEN full ELSE << full[1] >>

\* full coverage measured against all changed files, owned or not
FullCoverageOwnersOfAllFiles(this, ownerToFiles) ==
    LET owners == [n \in 1..Len(ownerToFiles) |-> ownerToFiles[n].owner]
    IN  SelectSeq2(owners,
                   { o \in Range(owners) :
                       Cardinality(OwnerFiles(ownerToFiles, o)) = Len(this.changedFiles) },
                   1)

\* the owners of ownerToFiles whose file count equals filesWithOwners.size
FullCoverageOwners(this, ownerToFiles) ==
    LET owners == [n \in 1..Len(ownerToFiles) |-> ownerToFiles[n].owner]
    IN  SelectSeq2(owners,
                   { o \in Range(owners) :
                       Cardinality(OwnerFiles(ownerToFiles, o))
                           = Cardinality(this.filesWithOwners) },
                   1)

\* an analysis that runs as if the author of the pull request were not known
AnalyzeOwnershipAuthorUnknown(this0) ==
    Bind(MapOwnersToFiles([this0 EXCEPT !.prAuthor = Undefined], this0.changedFiles, << >>),
         LAMBDA m :
             [this   |-> [m.this EXCEPT !.prAuthor = this0.prAuthor],
              result |-> [fullCoverageOwners |-> FullCoverageOwners(m.this, m.ownerToFiles),
                          combinedSets       |-> FindCombinedOwnerSet(m.this, m.ownerToFiles),
                          fileStats          |->
                              [total         |-> Len(m.this.changedFiles),
                               withOwners    |-> Cardinality(m.this.filesWithOwners),
                               withoutOwners |-> Cardinality(m.this.filesWithoutOwners)]]])

AnalyzeOwnership(this0) ==
    Bind(MapOwnersToFiles(this0, this0.changedFiles, << >>),
         LAMBDA m :
             [this   |-> m.this,
              result |-> [fullCoverageOwners |-> FullCoverageOwners(m.this, m.ownerToFiles),
                          combinedSets       |-> FindCombinedOwnerSet(m.this, m.ownerToFiles),
                          fileStats          |->
                              [total         |-> Len(m.this.changedFiles),
                               withOwners    |-> Cardinality(m.this.filesWithOwners),
                               withoutOwners |-> Cardinality(m.this.filesWithoutOwners)]]])

\* getOwnerFiles(owner): calls getFileOwners for every changed file
RECURSIVE GetOwnerFiles(_, _, _)
GetOwnerFiles(this, files, owner) ==
    IF Len(files) = 0
    THEN [this |-> this, files |-> {}]
    ELSE Bind(GetFileOwners(this, files[1]),
              LAMBDA r :
                  Bind(GetOwnerFiles(r.this, Tail(files), owner),
                       LAMBDA rest :
                           [this  |-> rest.this,
                            files |-> IF owner \in Range(r.ret)
                                      THEN rest.files \cup {files[1]}
                                      ELSE rest.files]))

(***************************************************************************)
(* Inputs                                                                  *)
(***************************************************************************)
\* reviewers
OwnerA == << "@", "a" >>
OwnerB == << "@", "b" >>
OwnerC == << "@", "c" >>

\* the file elements of the pull request, in document order
FileRoot == << "a", ".", "j", "s" >>
FileSrc  == << "s", "/", "a", ".", "j", "s" >>

AllElements == << FileRoot, << "d", "/", "a", ".", "m", "d" >>, FileSrc >>

\* lines of rule text
Sp == << " " >>

LineRootAC   == << "*" >> \o Sp \o OwnerA \o Sp \o OwnerC
LineDocsB    == << "/", "d", "/" >> \o Sp \o OwnerB
LineSrcC     == << "s" >> \o Sp \o OwnerC
LineJsA      == << "*", ".", "j", "s" >> \o Sp \o OwnerA
LineDocsAC   == << "/", "d", "/" >> \o Sp \o OwnerA \o Sp \o OwnerC

\* bounds
MaxRules == 2

MaxInvocations == 3

RECURSIVE SeqsUpTo(_, _)
SeqsUpTo(S, n) ==
    IF n = 0 THEN { << >> }
    ELSE LET shorter == SeqsUpTo(S, n - 1)
         IN  shorter \cup { Append(q, x) : q \in { r \in shorter : Len(r) = n - 1 }, x \in S }

\* the rule files of the pages the analyzer is run on
PageContents ==
    { EmptyContent,
      << LineRootAC, LineDocsB, LineSrcC >>,
      << << "*" >> \o Sp \o OwnerA \o Sp \o OwnerB, LineDocsAC >> }

\* a rule text by which two files have the same two owners
SharedContent == << LineRootAC, LineDocsAC >>

\* the pull-request author read from the page (null when not found)
Authors == { Undefined, OwnerA }

\* the sets of approving reviewers getApprovedReviewers can return
ApprovalSets == { {}, {OwnerC} }

(***************************************************************************)
(* State                                                                   *)
(***************************************************************************)
VARIABLES
    analyzer,     \* the CodeOwnersAnalyzer instance
    page,         \* the document: file elements, container, spinner, counter
    phase,        \* "constructed", "initialized" or "skipped" (initialize returned early)
    observer,     \* TRUE while the MutationObserver of observeFileChanges is connected
    invocations,  \* the updateChangedFiles calls: position, snapshot, processed
    panel,        \* what the panel shows
    firstPass,    \* the first analyzeOwnership call of the instance: inputs and result
    lastPass,     \* the latest analyzeOwnership call: inputs and result
    tab,          \* the content script's window: sessionStorage flag, readyState, URL,
                  \* isInitializing and the initializeAnalyzer call in progress
    background,   \* the service worker: the stored enabled flag, the icon, the
                  \* click handlers in progress
    matcher       \* one doesPatternMatch call: its arguments and what it returned

vars == << analyzer, page, phase, observer, invocations, panel, firstPass, lastPass,
           tab, background, matcher >>

\* no doesPatternMatch call under observation
NoMatcher == [pattern |-> << >>, filePath |-> << >>, called |-> FALSE, result |-> FALSE]

\* the window of a Files tab before the content script has run, and the
\* service worker after installation
NoTab ==
    [readyState     |-> "complete",
     onFiles        |-> TRUE,
     panelClosed    |-> FALSE,
     isInitializing |-> FALSE,
     pc             |-> "idle",
     calls          |-> 0,
     dismissed      |-> FALSE,
     pending        |-> 0]

NoBackground ==
    [enabled  |-> TRUE,
     initial  |-> TRUE,
     icon     |-> "default",
     queue    |-> << >>,
     handlers |-> << >>]

NoResult ==
    [fullCoverageOwners |-> << >>,
     combinedSets       |-> << >>,
     fileStats          |-> [total |-> 0, withOwners |-> 0, withoutOwners |-> 0]]

NoPass == [n |-> 0, changedFiles |-> << >>, approved |-> {}, result |-> NoResult]

Idle == [pc |-> "idle", files |-> << >>, processed |-> 0]

NoPanel == [state |-> "none", result |-> NoResult, approved |-> {}]

Loading == [state |-> "loading", result |-> NoResult, approved |-> {}]

(***************************************************************************)
(* The document                                                            *)
(***************************************************************************)
\* getAllFileElements
GetAllFileElements(pg) == pg.elements

\* getFilePathFromElement: the path of the element, Undefined (null) when
\* none of the lookups finds one
GetFilePathFromElement(fileElement) == fileElement

\* the value parsed from the Files tab counter
ExpectedCount(pg) == pg.counter

\* the condition under which checkForLoadingIndicator resolves
WaitForAllFilesResolves(pg) ==
    LET fileCount       == Len(GetAllFileElements(pg))
        expectedCount   == ExpectedCount(pg)
        isNewLayout     == ~pg.container /\ pg.reactRoot
        loadingComplete == IF isNewLayout
                           THEN fileCount > 0 /\ fileCount = expectedCount
                           ELSE ~pg.spinner /\ (~pg.container \/ fileCount = expectedCount)
    IN  loadingComplete /\ ~(fileCount = 0 \/ expectedCount = 0)

\* the page of a layout with the first loaded of all file elements: the
\* spinner of the progressive container shows until every file is loaded,
\* the counter shows the number of files of the pull request
Page(layout, all, loaded) ==
    [elements  |-> SubSeq(all, 1, loaded),
     container |-> layout = "progressive",
     reactRoot |-> layout = "react-app",
     spinner   |-> layout = "progressive" /\ loaded < Len(all),
     counter   |-> Len(all)]

(***************************************************************************)
(* updateChangedFiles / updateUI                                           *)
(***************************************************************************)
BATCH_SIZE == 20

\* batch.forEach, but an element without path is added as well
RECURSIVE AddBatchUnchecked(_, _, _, _)
AddBatchUnchecked(changedFiles, files, from, to) ==
    IF from > to THEN changedFiles
    ELSE Bind(SetAdd(changedFiles, GetFilePathFromElement(files[from])),
              LAMBDA added : AddBatchUnchecked(added, files, from + 1, to))

\* batch.forEach(file => ...) over files[from .. to]
RECURSIVE AddBatch(_, _, _, _)
AddBatch(changedFiles, files, from, to) ==
    IF from > to THEN changedFiles
    ELSE LET path == GetFilePathFromElement(files[from])
         IN  Bind(IF path # Undefined THEN SetAdd(changedFiles, path) ELSE changedFiles,
                  LAMBDA added : AddBatch(added, files, from + 1, to))

\* processNextBatch, but every batch after the first starts one element late
ProcessNextBatchSkipping(i, this, files, processed, pnl) ==
    LET to    == Min(processed + BATCH_SIZE, Len(files))
        from  == IF processed = 0 THEN 1 ELSE processed + 2
        this1 == [this EXCEPT !.changedFiles = AddBatch(@, files, from, to)]
    IN  /\ analyzer' = this1
        /\ IF to < Len(files)
           THEN /\ invocations' = [invocations EXCEPT ![i] =
                       [pc |-> "batch", files |-> files, processed |-> to]]
                /\ panel' = pnl
           ELSE IF Len(this1.changedFiles) > 0
           THEN /\ invocations' = [invocations EXCEPT ![i] =
                       [pc |-> "getApprovedReviewers", files |-> files, processed |-> to]]
                /\ panel' = Loading
           ELSE /\ invocations' = [invocations EXCEPT ![i] =
                       [pc |-> "done", files |-> files, processed |-> to]]
                /\ panel' = pnl

\* processNextBatch of invocation i on snapshot files, with panel pnl
\* showing: the batch is added and then either the next batch is scheduled,
\* or updateUI starts (showLoading, then the approvals are fetched), or
\* nothing follows; the invocation keeps the snapshot it took
ProcessNextBatch(i, this, files, processed, pnl) ==
    LET to    == Min(processed + BATCH_SIZE, Len(files))
        this1 == [this EXCEPT !.changedFiles = AddBatch(@, files, processed + 1, to)]
    IN  /\ analyzer' = this1
        /\ IF to < Len(files)
           THEN /\ invocations' = [invocations EXCEPT ![i] =
                       [pc |-> "batch", files |-> files, processed |-> to]]
                /\ panel' = pnl
           ELSE IF Len(this1.changedFiles) > 0
           THEN /\ invocations' = [invocations EXCEPT ![i] =
                       [pc |-> "getApprovedReviewers", files |-> files, processed |-> to]]
                /\ panel' = Loading
           ELSE /\ invocations' = [invocations EXCEPT ![i] =
                       [pc |-> "done", files |-> files, processed |-> to]]
                /\ panel' = pnl

\* the paths processNextBatch finds for the file elements of a snapshot
ResolvablePaths(files) ==
    { GetFilePathFromElement(files[k]) : k \in 1..Len(files) } \ { Undefined }

\* the synchronous start of updateChangedFiles: the tracking sets are reset
ResetTracking(this) ==
    [this EXCEPT !.filesWithOwners = {}, !.filesWithoutOwners = {}]

FreeSlots == { i \in 1..MaxInvocations : invocations[i].pc = "idle" }

\* updateChangedFiles called as invocation i on page pg, with panel pnl
\* showing: the tracking sets are reset and waitForAllFiles makes its first
\* check at once; when it resolves there, the rest of the call follows
\* before any other task runs, otherwise the call waits for a later check
StartUpdateChangedFiles(i, this, pg, pnl) ==
    IF WaitForAllFilesResolves(pg)
    THEN ProcessNextBatch(i, [ResetTracking(this) EXCEPT !.changedFiles = << >>],
                          GetAllFileElements(pg), 0, pnl)
    ELSE /\ analyzer' = ResetTracking(this)
         /\ invocations' = [invocations EXCEPT ![i] = [Idle EXCEPT !.pc = "waitForAllFiles"]]
         /\ panel' = pnl

\* showResults calls getOwnerFiles for every owner it lists
RECURSIVE ShowResultsOwnerFiles(_, _)
ShowResultsOwnerFiles(this, owners) ==
    IF Len(owners) = 0 THEN this
    ELSE Bind(GetOwnerFiles(this, this.changedFiles, owners[1]),
              LAMBDA r : ShowResultsOwnerFiles(r.this, Tail(owners)))

RECURSIVE Flatten(_)
Flatten(sets) ==
    IF Len(sets) = 0 THEN << >> ELSE sets[1] \o Flatten(Tail(sets))

(***************************************************************************)
(* The analyzer on a page                                                  *)
(***************************************************************************)
Init ==
    /\ analyzer = NewAnalyzer
    /\ page \in { Page(layout, AllElements, n) :
                     layout \in { "progressive", "react-app", "react-partial" },
                     n \in 0..Len(AllElements) }
    /\ phase = "constructed"
    /\ observer = FALSE
    /\ invocations = [i \in 1..MaxInvocations |-> Idle]
    /\ panel = NoPanel
    /\ firstPass = NoPass
    /\ lastPass = NoPass
    /\ tab = NoTab
    /\ background = NoBackground
    /\ matcher = NoMatcher

\* initialize on a merged or closed pull request: no panel, nothing starts
InitializeSkipped ==
    /\ phase = "constructed"
    /\ \E prAuthor \in Authors :
          analyzer' = [analyzer EXCEPT !.prAuthor = prAuthor]
    /\ phase' = "skipped"
    /\ UNCHANGED << page, observer, invocations, panel, firstPass, lastPass, tab, background, matcher >>

\* initialize on a draft or open pull request: the author is read, the
\* panel is created in its loading state, the rule text is fetched and
\* parsed (or cannot be fetched), observeFileChanges finds the file list,
\* makes the first updateChangedFiles call and connects the observer; the
\* author is one of prAuthors, the rule text one of contents
InitializeOn(prAuthors, contents) ==
    /\ phase = "constructed"
    /\ \E prAuthor \in prAuthors, fetched \in BOOLEAN :
         \E content \in (IF fetched THEN contents ELSE { Undefined }) :
            LET this1 == [analyzer EXCEPT !.prAuthor = prAuthor]
                this2 == IF fetched THEN ParseCodeowners(this1, content) ELSE this1
            IN  StartUpdateChangedFiles(1, this2, page, Loading)
    /\ phase' = "initialized"
    /\ observer' = TRUE
    /\ UNCHANGED << page, firstPass, lastPass, tab, background, matcher >>

Initialize == InitializeOn(Authors, PageContents)

\* file elements are added to or removed from the document; a connected
\* observer calls updateChangedFiles and disconnects once the counter is
\* reached
DomMutation ==
    LET LayoutOf ==
            IF page.container THEN "progressive"
            ELSE IF page.reactRoot THEN "react-app" ELSE "react-partial"
    IN
    /\ \E n \in 0..Len(AllElements) :
          /\ n # Len(page.elements)
          /\ page' = Page(LayoutOf, AllElements, n)
    /\ IF observer
       THEN /\ FreeSlots # {}
            /\ StartUpdateChangedFiles(SetMin(FreeSlots), analyzer, page', panel)
            /\ observer' = ~(/\ Len(GetAllFileElements(page')) >= ExpectedCount(page')
                             /\ ExpectedCount(page') > 0)
       ELSE UNCHANGED << analyzer, invocations, observer, panel >>
    /\ UNCHANGED << phase, firstPass, lastPass, tab, background, matcher >>

\* a later check of waitForAllFiles resolves: the file elements are read,
\* changedFiles is cleared and the first batch is processed
UpdateChangedFiles(i) ==
    /\ invocations[i].pc = "waitForAllFiles"
    /\ WaitForAllFilesResolves(page)
    /\ ProcessNextBatch(i, [analyzer EXCEPT !.changedFiles = << >>],
                        GetAllFileElements(page), 0, panel)
    /\ UNCHANGED << page, phase, observer, firstPass, lastPass, tab, background, matcher >>

\* updateUI after getApprovedReviewers has returned: analyzeOwnership, then
\* showResults
UpdateUI(i) ==
    /\ invocations[i].pc = "getApprovedReviewers"
    /\ \E approvedReviewers \in ApprovalSets, a \in { AnalyzeOwnership(analyzer) } :
          LET pass == [n            |-> lastPass.n + 1,
                       changedFiles |-> analyzer.changedFiles,
                       approved     |-> approvedReviewers,
                       result       |-> a.result]
          IN  /\ analyzer' = ShowResultsOwnerFiles(a.this,
                                 a.result.fullCoverageOwners \o Flatten(a.result.combinedSets))
              /\ panel' = [state |-> "results", result |-> a.result,
                           approved |-> approvedReviewers]
              /\ lastPass' = pass
              /\ firstPass' = IF firstPass.n = 0 THEN pass ELSE firstPass
    /\ invocations' = [invocations EXCEPT ![i].pc = "done"]
    /\ UNCHANGED << page, phase, observer, tab, background, matcher >>

Next ==
    \/ InitializeSkipped
    \/ Initialize
    \/ DomMutation
    \/ \E i \in 1..MaxInvocations : UpdateChangedFiles(i)
    \/ \E i \in 1..MaxInvocations : UpdateUI(i)

Spec == Init /\ [][Next]_vars

(***************************************************************************)
(* The analyzer's methods called directly, on every rule text              *)
(***************************************************************************)
\* an analyzer whose author is set and whose rule text is parsed
Parsed(prAuthor, content) ==
    ParseCodeowners([NewAnalyzer EXCEPT !.prAuthor = prAuthor], content)

InitCore ==
    /\ analyzer \in
         { Parsed(prAuthor, content) :
             prAuthor \in Authors,
             \* rule texts as parseCodeowners receives them: the empty text,
             \* every text of 1 .. MaxRules lines (rules, a comment, a line
             \* without owners), the rule files of the pages, SharedContent
             content \in
                 { EmptyContent }
                     \cup (SeqsUpTo({ LineRootAC, LineDocsB, LineSrcC, LineJsA,
                                      << "#" >> \o Sp \o OwnerB,
                                      Sp \o << "s" >> }, MaxRules) \ { << >> })
                     \cup PageContents
                     \cup { SharedContent } }
    /\ page = Page("react-app", AllElements, Len(AllElements))
    /\ phase = "initialized"
    /\ observer = FALSE
    /\ invocations = [i \in 1..MaxInvocations |-> Idle]
    /\ panel = NoPanel
    /\ firstPass = NoPass
    /\ lastPass = NoPass
    /\ tab = NoTab
    /\ background = NoBackground
    /\ matcher = NoMatcher

\* getFileOwners(filePath)
CallGetFileOwners ==
    /\ \E filePath \in Range(page.elements) :
          analyzer' = GetFileOwners(analyzer, filePath).this
    /\ UNCHANGED << page, phase, observer, invocations, panel, firstPass, lastPass, tab, background, matcher >>

\* updateChangedFiles run to its end on the first n file elements, without
\* the analysis it starts
CallUpdateChangedFiles ==
    /\ \E n \in 0..Len(page.elements) :
          analyzer' = [ResetTracking(analyzer) EXCEPT
                          !.changedFiles = AddBatch(<< >>, page.elements, 1, n)]
    /\ UNCHANGED << page, phase, observer, invocations, panel, firstPass, lastPass, tab, background, matcher >>

\* analyzeOwnership()
CallAnalyzeOwnership ==
    /\ analyzer' = AnalyzeOwnership(analyzer).this
    /\ UNCHANGED << page, phase, observer, invocations, panel, firstPass, lastPass, tab, background, matcher >>

NextCore ==
    \/ CallGetFileOwners
    \/ CallUpdateChangedFiles
    \/ CallAnalyzeOwnership

SpecCore == InitCore /\ [][NextCore]_vars

(***************************************************************************)
(* The analyzer's methods on rule texts that reach the limits of the       *)
(* combination search                                                      *)
(***************************************************************************)
Digits == << "1", "2", "3", "4", "5", "6", "7", "8", "9" >>

\* the file of directory k, the j-th owner of directory k, and the rule
\* line that gives directory k its first m owners
CapsFile(k) == << Digits[k], "/", "x" >>

\* two directories of up to MaxWide owners each: MaxWide * MaxWide covering pairs
MaxWide == 4

\* up to MaxDeep directories of one owner each: the only cover has all of them
MaxDeep == 6

InitCaps ==
    LET \* the rule line that gives directory d its first w owners, the rule
        \* text of n such directories, and their n file elements
        CapsLine(d, w) ==
            << "/", Digits[d], "/" >>
                \o Flatten([j \in 1..w |-> Sp \o << "@", Digits[d], Digits[j] >>])
        CapsContent(n, w) == [d \in 1..n |-> CapsLine(d, w)]
        CapsElements(n) == [d \in 1..n |-> CapsFile(d)]
    IN
    /\ \E shape \in { << 2, m >> : m \in 1..MaxWide }
                        \cup { << n, 1 >> : n \in 1..MaxDeep } :
          /\ analyzer = Parsed(Undefined, CapsContent(shape[1], shape[2]))
          /\ page = Page("react-app", CapsElements(shape[1]), shape[1])
    /\ phase = "initialized"
    /\ observer = FALSE
    /\ invocations = [i \in 1..MaxInvocations |-> Idle]
    /\ panel = NoPanel
    /\ firstPass = NoPass
    /\ lastPass = NoPass
    /\ tab = NoTab
    /\ background = NoBackground
    /\ matcher = NoMatcher

SpecCaps == InitCaps /\ [][NextCore]_vars

(***************************************************************************)
(* The analyzer on a page whose file list needs more than one batch        *)
(***************************************************************************)
\* the file list has ExtraFiles file elements more than one batch holds
ExtraFiles == 2

\* the file lists of the page: element k has a path of its own; in list
\* "some" every third element has no path any lookup finds, in list "all"
\* no element has one
ManyElements(kind) ==
    [k \in 1..(BATCH_SIZE + ExtraFiles) |->
        IF kind = "all" \/ (kind = "some" /\ k % 3 = 0)
        THEN Undefined
        ELSE [j \in 1..k |-> "x"]]

\* the pages of one layout: no file element, one, or all of a file list
ManyPages(layout) ==
    { Page(layout, ManyElements(kind), n) :
        kind \in { "none", "some", "all" },
        n \in { 0, 1, BATCH_SIZE + ExtraFiles } }

InitMany ==
    /\ analyzer = NewAnalyzer
    /\ page \in UNION { ManyPages(layout) : layout \in { "react-app", "react-partial" } }
    /\ phase = "constructed"
    /\ observer = FALSE
    /\ invocations = [i \in 1..MaxInvocations |-> Idle]
    /\ panel = NoPanel
    /\ firstPass = NoPass
    /\ lastPass = NoPass
    /\ tab = NoTab
    /\ background = NoBackground
    /\ matcher = NoMatcher

\* initialize on a pull request without author whose rule text is empty
InitializeMany == InitializeOn({ Undefined }, { EmptyContent })

\* the file list of the document changes; a connected observer calls
\* updateChangedFiles and disconnects once the counter is reached; at most
\* two invocations are started
ManyMutation ==
    /\ page' \in ManyPages(IF page.reactRoot THEN "react-app" ELSE "react-partial")
    /\ page' # page
    /\ IF observer
       THEN /\ Cardinality(FreeSlots) >= MaxInvocations - 1
            /\ StartUpdateChangedFiles(SetMin(FreeSlots), analyzer, page', panel)
            /\ observer' = ~(/\ Len(GetAllFileElements(page')) >= ExpectedCount(page')
                             /\ ExpectedCount(page') > 0)
       ELSE UNCHANGED << analyzer, invocations, observer, panel >>
    /\ UNCHANGED << phase, firstPass, lastPass, tab, background, matcher >>

\* the timer of setTimeout(processNextBatch, 0) fires: the next batch of the
\* invocation's snapshot is processed
BatchTimer(i) ==
    /\ invocations[i].pc = "batch"
    /\ ProcessNextBatch(i, analyzer, invocations[i].files, invocations[i].processed, panel)
    /\ UNCHANGED << page, phase, observer, firstPass, lastPass, tab, background, matcher >>

NextMany ==
    \/ InitializeMany
    \/ ManyMutation
    \/ \E i \in 1..MaxInvocations : UpdateChangedFiles(i)
    \/ \E i \in 1..MaxInvocations : BatchTimer(i)
    \/ \E i \in 1..MaxInvocations : UpdateUI(i)

SpecMany == InitMany /\ [][NextMany]_vars

\* the same with the scheduling of the browser: a timer that is due fires
\* (the checks of waitForAllFiles, the next batch) and the fetch of
\* getApprovedReviewers returns or fails
FairSpecMany ==
    /\ SpecMany
    /\ \A i \in 1..MaxInvocations :
          /\ WF_vars(UpdateChangedFiles(i))
          /\ WF_vars(BatchTimer(i))
          /\ WF_vars(UpdateUI(i))

(***************************************************************************)
(* The analyzer's methods on rule texts with a pattern for which           *)
(* new RegExp throws                                                       *)
(***************************************************************************)
\* file elements whose path holds an opening parenthesis
FileParen == << "s", "(", ".", "j", "s" >>

BrokenElements == << FileRoot, FileParen, << "s", "(", ".", "j", "s", "x" >> >>

InitBroken ==
    /\ analyzer \in { Parsed(prAuthor, content) :
                          prAuthor \in Authors,
                          \* every text of 1 .. MaxRules lines, the first of
                          \* which has the pattern that cannot be compiled
                          content \in SeqsUpTo({ FileParen \o Sp \o OwnerB,
                                                 LineJsA, LineRootAC }, MaxRules)
                                          \ { << >> } }
    /\ page = Page("react-app", BrokenElements, Len(BrokenElements))
    /\ phase = "initialized"
    /\ observer = FALSE
    /\ invocations = [i \in 1..MaxInvocations |-> Idle]
    /\ panel = NoPanel
    /\ firstPass = NoPass
    /\ lastPass = NoPass
    /\ tab = NoTab
    /\ background = NoBackground
    /\ matcher = NoMatcher

SpecBroken == InitBroken /\ [][NextCore]_vars

(***************************************************************************)
(* The content script in a tab: initializeAnalyzer, handleUrlChange,       *)
(* removeUI and the session flag.  What an analyzer does once its panel    *)
(* exists is in Initialize .. UpdateUI above; here the panel only exists   *)
(* or not.                                                                 *)
(***************************************************************************)
\* initializeAnalyzer calls scheduled by handleUrlChange and not yet started
MaxCalls == 2

\* analyzers of one document whose observer, timers or updateUI are pending
MaxInstances == 2

\* removeUI(fromCloseButton) on the session flag
RemoveUIFlag(t, fromCloseButton) ==
    IF fromCloseButton THEN [t EXCEPT !.panelClosed = TRUE] ELSE t

\* initializeAnalyzer up to its first await: nothing when a call is in
\* progress, otherwise the flag is removed on a complete document and the
\* enabled flag is requested from storage
InitializeAnalyzerStart(t) ==
    IF t.isInitializing THEN t
    ELSE [t EXCEPT !.isInitializing = TRUE,
                   !.panelClosed = IF t.readyState = "complete" THEN FALSE ELSE @,
                   !.pc = "storage"]

\* the content script has run in a fresh document: sessionStorage is what
\* the tab held before, and initializeAnalyzer is called on a Files tab
ScriptLoaded(readyState, onFiles, panelClosed) ==
    LET t == [NoTab EXCEPT !.readyState = readyState,
                           !.onFiles = onFiles,
                           !.panelClosed = panelClosed]
    IN  IF onFiles THEN InitializeAnalyzerStart(t) ELSE t

InitTab ==
    /\ analyzer = NewAnalyzer
    /\ page = Page("react-app", AllElements, Len(AllElements))
    /\ phase = "constructed"
    /\ observer = FALSE
    /\ invocations = [i \in 1..MaxInvocations |-> Idle]
    /\ panel = NoPanel
    /\ firstPass = NoPass
    /\ lastPass = NoPass
    /\ tab \in { ScriptLoaded(readyState, onFiles, panelClosed) :
                    readyState \in {"interactive", "complete"},
                    onFiles \in BOOLEAN, panelClosed \in BOOLEAN }
    /\ background \in { [NoBackground EXCEPT !.enabled = e, !.initial = e] : e \in BOOLEAN }
    /\ matcher = NoMatcher

\* the load event: clearSessionFlags
WindowLoad ==
    /\ tab.readyState = "interactive"
    /\ tab' = [tab EXCEPT !.readyState = "complete", !.panelClosed = FALSE]
    /\ UNCHANGED << analyzer, page, phase, observer, invocations, panel, firstPass, lastPass,
                    background, matcher >>

\* safeStorageGet returns: a disabled extension ends the call; otherwise an
\* analyzer is made and initialize runs up to its first await, or returns
\* at once when the session flag is set
StorageRead ==
    /\ tab.pc = "storage"
    /\ \E accessible \in BOOLEAN :
          IF accessible /\ ~background.enabled
          THEN tab' = [tab EXCEPT !.isInitializing = FALSE, !.pc = "idle"]
          ELSE IF tab.panelClosed
          THEN tab' = [tab EXCEPT !.isInitializing = FALSE, !.pc = "idle"]
          ELSE tab' = [tab EXCEPT !.pc = "initialize"]
    /\ UNCHANGED << analyzer, page, phase, observer, invocations, panel, firstPass, lastPass,
                    background, matcher >>

\* initialize after the header of the pull request has appeared: createUI
\* on a draft or open pull request, return on a merged one, removeUI()
\* otherwise; after createUI the new analyzer goes on to observeFileChanges
\* and has its observer, timers and updateUI calls pending
InitializeProceeds ==
    /\ tab.pc = "initialize"
    /\ \E state \in {"open", "merged", "closed"} :
          IF state = "open"
          THEN /\ tab.pending < MaxInstances
               /\ panel' = Loading
               /\ tab' = [tab EXCEPT !.pc = "created", !.pending = @ + 1]
          ELSE /\ panel' = IF state = "merged" THEN panel ELSE NoPanel
               /\ tab' = [tab EXCEPT !.isInitializing = FALSE, !.pc = "idle"]
    /\ UNCHANGED << analyzer, page, phase, observer, invocations, firstPass, lastPass,
                    background, matcher >>

\* initialize returns after createUI: the finally block of initializeAnalyzer
InitializeReturns ==
    /\ tab.pc = "created"
    /\ tab' = [tab EXCEPT !.isInitializing = FALSE, !.pc = "idle"]
    /\ UNCHANGED << analyzer, page, phase, observer, invocations, panel, firstPass, lastPass,
                    background, matcher >>

\* the work of one analyzer ends: its observer has disconnected at the
\* expected file count, its timers have fired and its updateUI has returned
InstanceSettles ==
    /\ tab.pending > 0
    /\ tab' = [tab EXCEPT !.pending = @ - 1]
    /\ UNCHANGED << analyzer, page, phase, observer, invocations, panel, firstPass, lastPass,
                    background, matcher >>

\* a click on the X of the panel: removeUI(true)
ClickClose ==
    /\ panel.state # "none"
    /\ panel' = NoPanel
    /\ tab' = [RemoveUIFlag(tab, TRUE) EXCEPT !.dismissed = TRUE]
    /\ UNCHANGED << analyzer, page, phase, observer, invocations, firstPass, lastPass,
                    background, matcher >>

\* handleUrlChange after an in-page navigation that changed the URL before
\* the fragment: to a Files tab, initializeAnalyzer is scheduled; to any
\* other page, removeUI()
UrlChange ==
    /\ \E files \in BOOLEAN :
          IF files
          THEN /\ tab.calls < MaxCalls
               /\ tab' = [tab EXCEPT !.onFiles = TRUE, !.calls = @ + 1]
               /\ panel' = panel
          ELSE /\ tab' = RemoveUIFlag([tab EXCEPT !.onFiles = FALSE], FALSE)
               /\ panel' = NoPanel
    /\ UNCHANGED << analyzer, page, phase, observer, invocations, firstPass, lastPass,
                    background, matcher >>

\* the timer of handleUrlChange fires: initializeAnalyzer()
TimerFires ==
    /\ tab.calls > 0
    /\ tab' = InitializeAnalyzerStart([tab EXCEPT !.calls = @ - 1])
    /\ UNCHANGED << analyzer, page, phase, observer, invocations, panel, firstPass, lastPass,
                    background, matcher >>

\* the page is loaded anew in the tab: a fresh document and a fresh run of
\* the content script; sessionStorage is kept
Reload ==
    /\ \E readyState \in {"interactive", "complete"}, onFiles \in BOOLEAN :
          tab' = ScriptLoaded(readyState, onFiles, tab.panelClosed)
    /\ panel' = NoPanel
    /\ UNCHANGED << analyzer, page, phase, observer, invocations, firstPass, lastPass,
                    background, matcher >>

NextTab ==
    \/ WindowLoad
    \/ StorageRead
    \/ InitializeProceeds
    \/ InitializeReturns
    \/ InstanceSettles
    \/ ClickClose
    \/ UrlChange
    \/ TimerFires
    \/ Reload

SpecTab == InitTab /\ [][NextTab]_vars

(***************************************************************************)
(* The service worker: clicks on the extension icon.  chrome.storage       *)
(* serves the requests it receives in the order they were made; a handler  *)
(* continues in a later task than the one that served its request.         *)
(***************************************************************************)
\* clicks on the icon
MaxClicks == 3

InitBackground ==
    /\ analyzer = NewAnalyzer
    /\ page = Page("react-app", AllElements, Len(AllElements))
    /\ phase = "constructed"
    /\ observer = FALSE
    /\ invocations = [i \in 1..MaxInvocations |-> Idle]
    /\ panel = NoPanel
    /\ firstPass = NoPass
    /\ lastPass = NoPass
    /\ tab = NoTab
    /\ background \in { [enabled  |-> e,
                          initial  |-> e,
                          icon     |-> "default",
                          queue    |-> << >>,
                          handlers |-> [h \in 1..MaxClicks |->
                                           [pc |-> "idle", enabled |-> FALSE,
                                            newState |-> FALSE]]] :
                            e \in BOOLEAN }
    /\ matcher = NoMatcher

\* a click: the listener starts and requests the flag from storage
ClickIcon ==
    /\ \E h \in 1..MaxClicks :
          /\ background.handlers[h].pc = "idle"
          /\ \A g \in 1..(h - 1) : background.handlers[g].pc # "idle"
          /\ background' = [background EXCEPT
                                !.handlers[h].pc = "get",
                                !.queue = Append(@, [h |-> h, op |-> "get"])]
    /\ UNCHANGED << analyzer, page, phase, observer, invocations, panel, firstPass, lastPass,
                    tab, matcher >>

\* chrome.storage serves the oldest request
StorageServes ==
    /\ Len(background.queue) > 0
    /\ LET req == background.queue[1]
       IN  IF req.op = "get"
           THEN background' = [background EXCEPT
                                  !.queue = Tail(@),
                                  !.handlers[req.h].pc = "got",
                                  !.handlers[req.h].enabled = background.enabled]
           ELSE background' = [background EXCEPT
                                  !.queue = Tail(@),
                                  !.handlers[req.h].pc = "stored",
                                  !.enabled = background.handlers[req.h].newState]
    /\ UNCHANGED << analyzer, page, phase, observer, invocations, panel, firstPass, lastPass,
                    tab, matcher >>

\* the listener continues after the get: newState = !enabled, and the
\* write is requested
HandlerWrites ==
    /\ \E h \in 1..MaxClicks :
          /\ background.handlers[h].pc = "got"
          /\ background' = [background EXCEPT
                                !.handlers[h].pc = "set",
                                !.handlers[h].newState = ~background.handlers[h].enabled,
                                !.queue = Append(@, [h |-> h, op |-> "set"])]
    /\ UNCHANGED << analyzer, page, phase, observer, invocations, panel, firstPass, lastPass,
                    tab, matcher >>

\* the listener continues after the set: updateExtensionIcon(newState),
\* then the tabs are queried and told of the new state
HandlerFinishes ==
    /\ \E h \in 1..MaxClicks :
          /\ background.handlers[h].pc = "stored"
          /\ background' = [background EXCEPT
                                !.handlers[h].pc = "done",
                                !.icon = IF background.handlers[h].newState
                                         THEN "enabled" ELSE "disabled"]
    /\ UNCHANGED << analyzer, page, phase, observer, invocations, panel, firstPass, lastPass,
                    tab, matcher >>

NextBackground ==
    \/ ClickIcon
    \/ StorageServes
    \/ HandlerWrites
    \/ HandlerFinishes

SpecBackground == InitBackground /\ [][NextBackground]_vars

(***************************************************************************)
(* doesPatternMatch on its own: one call on a pattern and a path           *)
(***************************************************************************)
\* characters of the enumerated patterns and paths
MaxPattern == 3

MaxPath == 3

InitMatch ==
    /\ analyzer = NewAnalyzer
    /\ page = Page("react-app", AllElements, Len(AllElements))
    /\ phase = "constructed"
    /\ observer = FALSE
    /\ invocations = [i \in 1..MaxInvocations |-> Idle]
    /\ panel = NoPanel
    /\ firstPass = NoPass
    /\ lastPass = NoPass
    /\ tab = NoTab
    /\ background = NoBackground
    /\ matcher \in
         { [NoMatcher EXCEPT !.pattern = pattern, !.filePath = filePath] :
             pattern \in
                 SeqsUpTo({ "/", "*", ".", "a", "(" }, MaxPattern)
                     \* and patterns of the shapes rule files use
                     \cup { << "*", "*", "/", "*", ".", "j", "s" >>,
                            << "s", "/", "*", "*" >>,
                            << "/", "s", "/", "*" >>,
                            << "/", "d", "/" >>,
                            << "s" >>,
                            << "d", "/", "*", ".", "j", "s" >>,
                            FileParen, FileSrc },
             filePath \in
                 SeqsUpTo({ "/", ".", "a", "(" }, MaxPath)
                     \cup Range(AllElements) \cup Range(BrokenElements) }

CallDoesPatternMatch ==
    /\ ~matcher.called
    /\ matcher' = [matcher EXCEPT
                      !.called = TRUE,
                      !.result = DoesPatternMatch(matcher.pattern, matcher.filePath)]
    /\ UNCHANGED << analyzer, page, phase, observer, invocations, panel, firstPass, lastPass,
                    tab, background >>

SpecMatch == InitMatch /\ [][CallDoesPatternMatch]_vars

(***************************************************************************)
(* What the properties below speak of                                      *)
(***************************************************************************)
\* the rule text the analyzer has parsed
RuleText(this) ==
    IF this.rawCodeowners = Undefined THEN EmptyContent ELSE this.rawCodeowners

\* the positions of the rules of the text whose pattern matches f
MatchingRules(content, f) ==
    { n \in 1..Len(content) :
        /\ LineIsRule(content[n])
        /\ DoesPatternMatch(StripLeadingSlash(LinePattern(content[n])), f) }

\* the owners of the n-th line, without the author
RuleOwners(content, prAuthor, n) == Range(LineOwners(content[n])) \ { prAuthor }

\* the owners of the last rule that matches f, without the author
LastRuleOwners(this, f) ==
    LET content == RuleText(this)
        matches == MatchingRules(content, f)
    IN  IF matches = {} THEN {}
        ELSE RuleOwners(content, this.prAuthor, SetMax(matches))

\* the files of a list whose owner set is not empty, and those an owner owns
FilesHavingOwners(this, files) ==
    { f \in Range(files) : LastRuleOwners(this, f) # {} }

FilesOwnedBy(this, files, o) ==
    { f \in Range(files) : o \in LastRuleOwners(this, f) }

\* the analyzer as it resolves owners without the raw text, from the
\* owner-keyed map alone
WithoutRawText(this) ==
    [this EXCEPT !.rawCodeowners = Undefined,
                 !.fileOwnersCache = EmptyCache,
                 !.filesWithOwners = {},
                 !.filesWithoutOwners = {}]

AuthorFree(this, result) ==
    /\ this.prAuthor \notin Range(result.fullCoverageOwners)
    /\ \A n \in 1..Len(result.combinedSets) :
          this.prAuthor \notin Range(result.combinedSets[n])

ApprovedIn(approved, set) == Cardinality(Range(set) \cap approved)

\* getFileOwners has resolved every changed file
AllFilesCached(this) ==
    \A f \in Range(this.changedFiles) : f \in DOMAIN this.fileOwnersCache

\* an analyzer with the rules and author of this one on which nothing has
\* run yet but an updateChangedFiles that found the given files
Fresh(this, files) ==
    [this EXCEPT !.changedFiles = files,
                 !.fileOwnersCache = EmptyCache,
                 !.filesWithOwners = {},
                 !.filesWithoutOwners = {}]

\* the file elements of the page that are in a set, in document order
ElementsIn(pg, S) == SelectSeq2(pg.elements, S, 1)

\* the last rule that matches f lists the author and nobody else
LastRuleListsOnlyAuthor(this, f) ==
    LET content == RuleText(this)
        matches == MatchingRules(content, f)
    IN  /\ this.prAuthor # Undefined
        /\ matches # {}
        /\ Range(LineOwners(content[SetMax(matches)])) = { this.prAuthor }

\* doesPatternMatch builds a regular expression for the pattern (none of
\* the earlier cases takes it), and new RegExp throws on it
CannotCompile(pattern) ==
    /\ ~EndsWith(pattern, << "/" >>)
    /\ ~Includes(pattern, << "*", "." >>)
    /\ ~Includes(pattern, << "*", "*" >>)
    /\ Includes(pattern, << "*" >>) \/ Includes(pattern, << "." >>)
    /\ RegexThrows(pattern)

\* the pattern of the n-th line as getFileOwners hands it to
\* doesPatternMatch, and as doesPatternMatch compares it
NormalizedPattern(content, n) == StripLeadingSlash(LinePattern(content[n]))

ComparedPattern(content, n) == StripLeadingSlash(NormalizedPattern(content, n))

\* the rules of the text whose pattern compiles or needs no compiling
SoundRules(content) ==
    { n \in 1..Len(content) :
        LineIsRule(content[n]) /\ ~CannotCompile(ComparedPattern(content, n)) }

\* the rules that match f when a pattern that cannot be compiled matches
\* the paths that start with it
RulesMatchingByPrefix(content, f) ==
    { n \in 1..Len(content) :
        /\ LineIsRule(content[n])
        /\ IF CannotCompile(ComparedPattern(content, n))
           THEN StartsWith(StripLeadingSlash(f), ComparedPattern(content, n))
           ELSE DoesPatternMatch(NormalizedPattern(content, n), f) }

\* the owners, without the author, of the last rule of a set of rules
OwnersOfLast(this, rules) ==
    IF rules = {} THEN {} ELSE RuleOwners(RuleText(this), this.prAuthor, SetMax(rules))

\* the six cases of doesPatternMatch on stripped arguments: when a case
\* applies, and what it answers
RuleApplies(k, pattern, filePath) ==
    CASE k = 1 -> pattern = filePath
      [] k = 2 -> EndsWith(pattern, << "/" >>)
      [] k = 3 -> Includes(pattern, << "*", "." >>)
      [] k = 4 -> Includes(pattern, << "*", "*" >>)
      [] k = 5 -> "*" \notin Range(pattern) /\ "." \notin Range(pattern)
      [] k = 6 -> TRUE

\* the text before the first "**" of a pattern, and the text between the
\* first "**" and the next one (or the end)
HeadOf(pattern) ==
    SubSeq(pattern, 1, SetMin(Occurrences(pattern, << "*", "*" >>)) - 1)

TailOf(pattern) ==
    LET from == SetMin(Occurrences(pattern, << "*", "*" >>)) + 2
        next == { i \in Occurrences(pattern, << "*", "*" >>) : i >= from }
    IN  SubSeq(pattern, from, IF next = {} THEN Len(pattern) ELSE SetMin(next) - 1)

RuleAnswer(k, pattern, filePath) ==
    CASE k = 1 -> TRUE
      [] k = 2 -> StartsWith(filePath, pattern)
      [] k = 3 -> \* "." and the text after the last "*."
                  EndsWith(filePath,
                           << "." >> \o SubSeq(pattern,
                                               SetMax(Occurrences(pattern, << "*", "." >>)) + 2,
                                               Len(pattern)))
      [] k = 4 -> /\ HeadOf(pattern) # << >> => StartsWith(filePath, HeadOf(pattern))
                  /\ TailOf(pattern) # << >> => EndsWith(filePath, TailOf(pattern))
      [] k = 5 -> StartsWith(filePath, pattern \o << "/" >>)
      [] k = 6 -> IF RegexThrows(pattern)
                  THEN StartsWith(filePath, pattern)
                  ELSE RegexTest(pattern, filePath)

FirstApplicable(pattern, filePath) ==
    SetMin({ k \in 1..6 : RuleApplies(k, pattern, filePath) })

\* the files the candidates of a set of indices own together include every
\* file with owners
CoversTracked(this, ownerToFiles, partialOwners, S) ==
    this.filesWithOwners
        \subseteq UNION { OwnerFiles(ownerToFiles, partialOwners[i]) : i \in S }

\* the covering sets of 2 .. min(MAX_COMBINATION_SIZE, n) candidates that
\* contain no smaller covering set
MinimalCovers(this, ownerToFiles, partialOwners) ==
    { S \in SUBSET (1..Len(partialOwners)) :
        /\ Cardinality(S) >= 2
        /\ Cardinality(S) <= MAX_COMBINATION_SIZE
        /\ CoversTracked(this, ownerToFiles, partialOwners, S)
        /\ \A T \in (SUBSET S) \ {S} :
              ~CoversTracked(this, ownerToFiles, partialOwners, T) }

\* a pass on this analyzer returns, as a collection and without
\* repetition, the first MAX_COMBINATIONS_TO_SHOW minimal covers in the
\* order of the search
ReturnsFirstMinimalCovers(this) ==
    LET \* sets of candidate indices: S comes before T in the order of the
        \* search, by size and then lexicographically
        SearchedBefore(S, T) ==
            \/ Cardinality(S) < Cardinality(T)
            \/ /\ Cardinality(S) = Cardinality(T)
               /\ S # T
               /\ SetMin((S \ T) \cup (T \ S)) \in S
    IN
    \A m \in { MapOwnersToFiles(this, this.changedFiles, << >>) } :
        \A partialOwners \in { PartialOwners(m.this, m.ownerToFiles) } :
            \A M \in { MinimalCovers(m.this, m.ownerToFiles, partialOwners) } :
                \A sets \in { FindCombinedOwnerSet(m.this, m.ownerToFiles) } :
                    /\ { { i \in 1..Len(partialOwners) : partialOwners[i] \in Range(sets[n]) } :
                            n \in 1..Len(sets) }
                         = { S \in M :
                               Cardinality({ T \in M : SearchedBefore(T, S) })
                                   < MAX_COMBINATIONS_TO_SHOW }
                    /\ \A n1, n2 \in 1..Len(sets) :
                          n1 # n2 => Range(sets[n1]) # Range(sets[n2])

\* the analyzer with a given set of approving reviewers
WithApprovals(this, approved) == [this EXCEPT !.approvedReviewers = approved]

\* the combined sets of a result as a set of sets of owners
SetOfSets(combinedSets) == { Range(combinedSets[n]) : n \in 1..Len(combinedSets) }

C2_FullCoverageOwnsAll ==
    \A o \in Range(lastPass.result.fullCoverageOwners) :
        FilesOwnedBy(analyzer, lastPass.changedFiles, o)
            = FilesHavingOwners(analyzer, lastPass.changedFiles)

\* C3: in every analyzeOwnership result, the union of the files owned by
\* the members of each combined set is exactly the set of changed files
\* that have a non-empty owner set.
C3_CombinedSetsCoverExactly ==
    \A n \in 1..Len(lastPass.result.combinedSets) :
        UNION { FilesOwnedBy(analyzer, lastPass.changedFiles, o) :
                    o \in Range(lastPass.result.combinedSets[n]) }
            = FilesHavingOwners(analyzer, lastPass.changedFiles)

\* C4: for every rule text, changed-file set and author, neither
\* fullCoverageOwners nor any combined set returned by analyzeOwnership
\* holds the author, whether the owners are resolved from the raw rule
\* text or from the owner-keyed fallback map.
C4_AuthorNeverInResults ==
    \A this \in { analyzer, WithoutRawText(analyzer) } :
        AuthorFree(this, AnalyzeOwnership(this).result)

\* the author is an owner, by the last matching rule, of a changed file the
\* analysis has resolved, and the analysis reports a full-coverage owner
C4_Witness ==
    /\ analyzer.prAuthor # Undefined
    /\ AllFilesCached(analyzer)
    /\ \E f \in Range(analyzer.changedFiles) :
          LET matches == MatchingRules(RuleText(analyzer), f)
          IN  /\ matches # {}
              /\ analyzer.prAuthor
                    \in Range(LineOwners(RuleText(analyzer)[SetMax(matches)]))
    /\ Len(AnalyzeOwnership(analyzer).result.fullCoverageOwners) > 0

\* C5: in the sorted list findCombinedOwnerSet returns, no combined set is
\* a superset of a combined set that appears earlier in the list.
C5_NoSupersetOfEarlier ==
    \A sets \in { AnalyzeOwnership(analyzer).result.combinedSets } :
        \A i, j \in 1..Len(sets) :
            i < j => ~(Range(sets[i]) \subseteq Range(sets[j]))

\* the analysis has run and reports two pairs: their union, a covering
\* superset of both, was met by the search and is not reported
C5_Witness ==
    /\ Len(analyzer.changedFiles) > 0
    /\ AllFilesCached(analyzer)
    /\ \E sets \in { AnalyzeOwnership(analyzer).result.combinedSets } :
          /\ Len(sets) >= 2
          /\ Len(sets[1]) = 2
          /\ Len(sets[2]) = 2
          /\ \A n \in 1..Len(sets) :
                Range(sets[n]) # Range(sets[1]) \cup Range(sets[2])

\* C6: for every input, findCombinedOwnerSet returns at most 15 combined
\* sets, and every returned set has at most 5 members.
C6_CapsHold ==
    \A sets \in { AnalyzeOwnership(analyzer).result.combinedSets } :
        /\ Len(sets) <= 15
        /\ \A n \in 1..Len(sets) : Len(sets[n]) <= 5

\* the analysis has run on two directories of which more than 15 pairs of
\* owners cover both files, and reports 15 sets
C6_Witness ==
    /\ Len(analyzer.changedFiles) = 2
    /\ AllFilesCached(analyzer)
    /\ Cardinality(Range(analyzer.fileOwnersCache[CapsFile(1)]))
          * Cardinality(Range(analyzer.fileOwnersCache[CapsFile(2)])) > 15
    /\ Len(AnalyzeOwnership(analyzer).result.combinedSets) = 15

\* C7: an analysis pass is a function of its inputs only: two
\* analyzeOwnership calls on the same instance with the same rule text,
\* changed-file set, author and approval set return the same
\* fullCoverageOwners, combinedSets and fileStats, whatever calls happened
\* between them.
C7_PassIsFunctionOfInputs ==
    ( /\ firstPass.n > 0
      /\ Range(firstPass.changedFiles) = Range(lastPass.changedFiles)
      /\ firstPass.approved = lastPass.approved )
        => firstPass.result = lastPass.result

\* C8: getFileOwners(f) called twice with the same rules and author
\* returns the same cached set both times, also when the set is empty, and
\* the second call changes neither the cache nor the tracking sets.
C8_CachedCallIsIdempotent ==
    \A f \in Range(page.elements) :
        \A r1 \in { GetFileOwners(analyzer, f) } :
            \A r2 \in { GetFileOwners(r1.this, f) } :
                /\ r2.ret = r1.ret
                /\ r2.this = r1.this
                /\ r1.this.fileOwnersCache[f] = r1.ret
                /\ f \in DOMAIN analyzer.fileOwnersCache =>
                      /\ r1.ret = analyzer.fileOwnersCache[f]
                      /\ r1.this = analyzer

\* getFileOwners has stored the empty set for a file, updateChangedFiles
\* has reset the tracking sets since, and the next call is the second one
C8_Witness ==
    \E f \in DOMAIN analyzer.fileOwnersCache :
        /\ Len(analyzer.fileOwnersCache[f]) = 0
        /\ f \notin analyzer.filesWithoutOwners
        /\ GetFileOwners(analyzer, f).this = analyzer

\* C9: whenever analyzeOwnership reports a full-coverage owner, the
\* combinedSets it reports is empty.
C9_NoCombinedSetsWithFullCoverage ==
    Len(lastPass.result.fullCoverageOwners) > 0
        => Len(lastPass.result.combinedSets) = 0

\* C10: in the combinedSets of the pass updateUI runs after fetching the
\* approval set, sets appear in ascending size, and among sets of equal
\* size one with more members in that approval set comes before one with
\* fewer.
C10_SortedBySizeThenApprovals ==
    \A i, j \in 1..Len(lastPass.result.combinedSets) :
        i < j =>
            LET a == lastPass.result.combinedSets[i]
                b == lastPass.result.combinedSets[j]
            IN  /\ Len(a) <= Len(b)
                /\ Len(a) = Len(b) =>
                      ApprovedIn(lastPass.approved, a) >= ApprovedIn(lastPass.approved, b)

\* C11: the approval set never affects which results are valid: for any
\* two approval sets and otherwise equal rules, changed files and author,
\* analyzeOwnership returns the same fullCoverageOwners, the same combined
\* sets compared as a set of sets, and the same fileStats.
C11_ApprovalsDoNotChangeValidity ==
    \A results \in { { AnalyzeOwnership(WithApprovals(analyzer, approved)).result :
                          approved \in ApprovalSets } } :
        \A r1, r2 \in results :
            /\ r1.fullCoverageOwners = r2.fullCoverageOwners
            /\ SetOfSets(r1.combinedSets) = SetOfSets(r2.combinedSets)
            /\ Len(r1.combinedSets) = Len(r2.combinedSets)
            /\ r1.fileStats = r2.fileStats

\* the analysis has run, and with one reviewer's approval it returns the
\* same combined sets as without it, in another order
C11_Witness ==
    /\ Len(analyzer.changedFiles) > 0
    /\ AllFilesCached(analyzer)
    /\ \E r1 \in { AnalyzeOwnership(WithApprovals(analyzer, {})).result } :
          \E r2 \in { AnalyzeOwnership(WithApprovals(analyzer, {OwnerC})).result } :
              /\ Len(r1.combinedSets) >= 2
              /\ r1.combinedSets # r2.combinedSets

\* C12: adding to the changed-file set any number of files whose resolved
\* owner set is empty leaves fullCoverageOwners and combinedSets of a single
\* fresh analysis pass unchanged; only fileStats.total and
\* fileStats.withoutOwners grow.  The passes compared are the first passes
\* of this analyzer, over every choice of changed files of the page.
C12_OwnerlessFilesChangeNothing ==
    \A S \in IF analyzer.fileOwnersCache = EmptyCache
             THEN SUBSET Range(page.elements) ELSE {} :
        \A r1 \in { AnalyzeOwnership(Fresh(analyzer, ElementsIn(page, S))).result } :
            \A U \in SUBSET { f \in Range(page.elements) \ S : LastRuleOwners(analyzer, f) = {} } :
                \A r2 \in { AnalyzeOwnership(Fresh(analyzer, ElementsIn(page, S \cup U))).result } :
                    /\ r2.fullCoverageOwners = r1.fullCoverageOwners
                    /\ r2.combinedSets = r1.combinedSets
                    /\ r2.fileStats.withOwners = r1.fileStats.withOwners
                    /\ r2.fileStats.total = r1.fileStats.total + Cardinality(U)
                    /\ r2.fileStats.withoutOwners = r1.fileStats.withoutOwners + Cardinality(U)

\* the first pass of an analyzer has run on a file without owners and a
\* file with owners, and reports a full-coverage owner
C12_Witness ==
    /\ analyzer = AnalyzeOwnership(Fresh(analyzer, analyzer.changedFiles)).this
    /\ analyzer.filesWithoutOwners # {}
    /\ analyzer.filesWithOwners # {}
    /\ DOMAIN analyzer.fileOwnersCache = Range(analyzer.changedFiles)
    /\ Len(AnalyzeOwnership(analyzer).result.fullCoverageOwners) > 0

\* C13: in the first pass of an analyzer over changed files of which at
\* least one has owners, every identity other than the author that is in
\* the resolved owner set of every changed file with a non-empty owner set
\* appears in fullCoverageOwners.
C13_FullCoverageComplete ==
    \A S \in IF analyzer.fileOwnersCache = EmptyCache
             THEN SUBSET Range(page.elements) ELSE {} :
        \A files \in { ElementsIn(page, S) } :
            \A r \in { AnalyzeOwnership(Fresh(analyzer, files)).result } :
                \A owned \in { FilesHavingOwners(analyzer, files) } :
                    owned # {} =>
                        \A o \in UNION { LastRuleOwners(analyzer, f) : f \in owned } :
                            ( /\ o # analyzer.prAuthor
                              /\ \A f \in owned : o \in LastRuleOwners(analyzer, f) )
                                => o \in Range(r.fullCoverageOwners)

\* the first pass of an analyzer has run on two files with owners, and two
\* identities own both
C13_Witness ==
    /\ analyzer = AnalyzeOwnership(Fresh(analyzer, analyzer.changedFiles)).this
    /\ DOMAIN analyzer.fileOwnersCache = Range(analyzer.changedFiles)
    /\ Cardinality(analyzer.filesWithOwners) >= 2
    /\ Cardinality({ o \in {OwnerA, OwnerB, OwnerC} :
                        \A f \in analyzer.filesWithOwners : o \in LastRuleOwners(analyzer, f) }) >= 2
    /\ Len(AnalyzeOwnership(analyzer).result.fullCoverageOwners) >= 2

\* C14: if the last rule in source order that matches a file lists only
\* the author as owner, getFileOwners returns the empty set for that file
\* and classifies it in filesWithoutOwners, even when an earlier matching
\* rule lists other owners; the earlier rule's owners are not used.
C14_AuthorOnlyRuleLeavesNoOwner ==
    \A f \in Range(page.elements) :
        LastRuleListsOnlyAuthor(analyzer, f) =>
            \A r \in { GetFileOwners(analyzer, f) } :
                /\ Len(r.ret) = 0
                /\ f \in r.this.filesWithoutOwners
                /\ f \notin r.this.filesWithOwners

C16_BrokenRuleGivesNoOwners ==
    \A f \in Range(page.elements) :
        \A r \in { GetFileOwners(analyzer, f) } :
            Range(r.ret) =
                OwnersOfLast(analyzer, MatchingRules(RuleText(analyzer), f)
                                           \cap SoundRules(RuleText(analyzer)))

\* C16 as amended: a rule on whose pattern new RegExp throws in
\* doesPatternMatch matches exactly the files whose path starts with the
\* pattern, and getFileOwners returns the owners of the last matching rule
\* of the text, that rule included; every other rule is resolved as usual.
C16_BrokenRuleMatchesByPrefix ==
    \A f \in Range(page.elements) :
        \A r \in { GetFileOwners(analyzer, f) } :
            Range(r.ret) = OwnersOfLast(analyzer, RulesMatchingByPrefix(RuleText(analyzer), f))

\* getFileOwners has resolved a file to the owners of a rule whose pattern
\* cannot be compiled and is a proper prefix of the path, while an earlier
\* rule of the text matches the file too
C16_Witness ==
    \E f \in DOMAIN analyzer.fileOwnersCache :
        LET content == RuleText(analyzer)
            matches == RulesMatchingByPrefix(content, f)
        IN  /\ Cardinality(matches) >= 2
            /\ CannotCompile(ComparedPattern(content, SetMax(matches)))
            /\ ComparedPattern(content, SetMax(matches)) # f
            /\ Len(analyzer.fileOwnersCache[f]) > 0
            /\ Range(analyzer.fileOwnersCache[f])
                  = RuleOwners(content, analyzer.prAuthor, SetMax(matches))

\* C17: the analyzer reports at most 3 combinations of reviewers who
\* together can approve all files, for every rule text and changed-file
\* set.
C17_AtMostThreeCombinations ==
    \A sets \in { AnalyzeOwnership(analyzer).result.combinedSets } :
        Len(sets) <= 3

\* C18: after the panel is closed with the X button (removeUI(true)), no
\* later in-page navigation to a Files tab or initializeAnalyzer call in
\* the same tab session creates the panel again, until the page itself is
\* reloaded.
C18_DismissalLastsForSession ==
    tab.dismissed => panel.state = "none"

\* C19: each click on the extension icon inverts the stored enabled flag:
\* after n click handlers have run to completion starting from flag value
\* e, the stored flag is e when n is even and not-e when n is odd, for every
\* interleaving of the handlers' storage reads and writes.
C19_ClicksToggle ==
    LET handlers == background.handlers
        done     == { h \in DOMAIN handlers : handlers[h].pc = "done" }
    IN  (\A h \in DOMAIN handlers : handlers[h].pc \in {"idle", "done"}) =>
            background.enabled =
                (IF Cardinality(done) % 2 = 0
                 THEN background.initial ELSE ~background.initial)

\* C20 as stated: doesPatternMatch is decided by the first applicable of
\* the six rules, the last of which is an anchored regular expression: the
\* call answers what that expression answers on the path, and a pattern
\* from which no expression can be built is satisfied by no path.
C20_RegularExpressionDecidesLast ==
    matcher.called =>
        LET pattern  == StripLeadingSlash(matcher.pattern)
            filePath == StripLeadingSlash(matcher.filePath)
            k        == FirstApplicable(pattern, filePath)
        IN  matcher.result =
                IF k = 6
                THEN ~RegexThrows(pattern) /\ RegexTest(pattern, filePath)
                ELSE RuleAnswer(k, pattern, filePath)

\* C20, amended: doesPatternMatch is decided by the first applicable of the
\* six rules in their fixed order, on the arguments stripped of one leading
\* slash; in the last rule a pattern whose expression cannot be compiled
\* matches the paths that start with it.  No later rule changes the answer.
C20_FirstApplicableRuleDecides ==
    matcher.called =>
        LET pattern  == StripLeadingSlash(matcher.pattern)
            filePath == StripLeadingSlash(matcher.filePath)
        IN  matcher.result =
                RuleAnswer(FirstApplicable(pattern, filePath), pattern, filePath)

\* a call answered by an earlier rule although a later rule applies too and
\* would answer otherwise
C20_Witness ==
    /\ matcher.called
    /\ LET pattern  == StripLeadingSlash(matcher.pattern)
           filePath == StripLeadingSlash(matcher.filePath)
       IN  /\ FirstApplicable(pattern, filePath) = 3
           /\ RuleApplies(4, pattern, filePath)
           /\ RuleAnswer(4, pattern, filePath) # RuleAnswer(3, pattern, filePath)
           /\ matcher.result

\* C21: for every pattern that contains "*." and does not end with "/",
\* doesPatternMatch returns true exactly when the path equals the pattern
\* or ends with "." followed by the text after the last "*." of the
\* pattern; what is written before the wildcard need not match the path.
C21_ExtensionRule ==
    ( /\ matcher.called
      /\ Includes(matcher.pattern, << "*", "." >>)
      /\ ~EndsWith(matcher.pattern, << "/" >>) ) =>
        LET pattern   == matcher.pattern
            last      == SetMax(Occurrences(pattern, << "*", "." >>))
            extension == SubSeq(pattern, last + 2, Len(pattern))
        IN  matcher.result =
                ( \/ matcher.filePath = pattern
                  \/ StripLeadingSlash(matcher.filePath) = StripLeadingSlash(pattern)
                  \/ EndsWith(matcher.filePath, << "." >> \o extension) )

\* a pattern with a directory before the wildcard has matched a path in
\* another directory
C21_Witness ==
    /\ matcher.called
    /\ matcher.result
    /\ matcher.pattern = << "d", "/", "*", ".", "j", "s" >>
    /\ ~StartsWith(matcher.filePath, << "d", "/" >>)

\* C22: every combined set returned by findCombinedOwnerSet has at least 2
\* members, for every input and after any sequence of analysis passes: in
\* the latest pass, in a further pass on the analyzer as it is, and in the
\* search of src/content.js, which starts at combinations of one owner.
C22_CombinedSetsHaveTwoMembers ==
    /\ \A n \in 1..Len(lastPass.result.combinedSets) :
          Len(lastPass.result.combinedSets[n]) >= 2
    /\ lastPass.n > 0 =>
          \A m \in { MapOwnersToFiles(analyzer, analyzer.changedFiles, << >>) } :
              \A partialOwners \in { PartialOwners(m.this, m.ownerToFiles) } :
                  \A i \in 1..2 :
                      \A sets \in { CombinationLoop(m.this, m.ownerToFiles, partialOwners,
                                                    i, << >>) } :
                          \A n \in 1..Len(sets) : Len(sets[n]) >= 2

\* a second pass has returned a combined set although one partial owner
\* alone owns every file with owners
C22_Witness ==
    /\ lastPass.n >= 2
    /\ Len(lastPass.result.combinedSets) > 0
    /\ \E m \in { MapOwnersToFiles(analyzer, analyzer.changedFiles, << >>) } :
          \E o \in Range(PartialOwners(m.this, m.ownerToFiles)) :
              /\ m.this.filesWithOwners # {}
              /\ m.this.filesWithOwners \subseteq OwnerFiles(m.ownerToFiles, o)

\* C23: let M be the subsets of the partial owners with 2 .. min(5, n)
\* members whose files together cover all files with owners and that contain
\* no smaller covering subset, ordered by size and then lexicographically by
\* candidate index.  As a collection, findCombinedOwnerSet returns exactly
\* the first min(15, |M|) elements of M.
C23_FirstMinimalCovers == ReturnsFirstMinimalCovers(analyzer)

\* the same of the first pass of an analyzer over the files of the page
C23_FirstMinimalCoversOfFirstPass ==
    analyzer.fileOwnersCache = EmptyCache =>
        ReturnsFirstMinimalCovers(Fresh(analyzer, page.elements))

\* C24: when updateUI is called by an updateChangedFiles invocation during
\* which no other invocation has started, changedFiles holds exactly the
\* resolvable paths of all file elements of the invocation's snapshot, in
\* the order and with the content one batch over the whole snapshot gives.
C24_BatchesEqualOnePass ==
    [][\A i \in 1..MaxInvocations :
          ( /\ invocations[i].pc # "getApprovedReviewers"
            /\ invocations'[i].pc = "getApprovedReviewers"
            /\ \A j \in 1..MaxInvocations \ {i} : invocations[j].pc = "idle" )
          => LET files == invocations'[i].files
             IN  /\ Range(analyzer'.changedFiles) = ResolvablePaths(files)
                 /\ analyzer'.changedFiles = AddBatch(<< >>, files, 1, Len(files))]_vars

\* the only invocation started has called updateUI after more than one
\* batch over a snapshot with entries that have no path
C24_Witness ==
    /\ invocations[1].pc = "getApprovedReviewers"
    /\ invocations[1].processed > BATCH_SIZE
    /\ Undefined \in Range(invocations[1].files)
    /\ \A j \in 2..MaxInvocations : invocations[j].pc = "idle"

C26_TrackingSetsPartitionChangedFiles ==
    [][lastPass'.n = lastPass.n + 1 =>
          LET this      == analyzer'
              fileStats == lastPass'.result.fileStats
          IN  /\ this.filesWithOwners \cap this.filesWithoutOwners = {}
              /\ this.filesWithOwners \cup this.filesWithoutOwners = Range(this.changedFiles)
              /\ this.filesWithOwners = FilesHavingOwners(this, this.changedFiles)
              /\ fileStats.withOwners + fileStats.withoutOwners = fileStats.total]_vars

\* C27: whenever analyzeOwnership executes, under every interleaving of
\* overlapping updateChangedFiles invocations on the analyzer, changedFiles
\* is the complete set of resolvable paths of one file-list snapshot, that
\* is, of the snapshot one of the invocations has taken.
C27_AnalysisSeesOneSnapshot ==
    [][lastPass'.n = lastPass.n + 1 =>
          \E j \in 1..MaxInvocations :
              /\ invocations[j].pc \in { "batch", "getApprovedReviewers", "done" }
              /\ Range(lastPass'.changedFiles) = ResolvablePaths(invocations[j].files)]_vars

\* C28: every combined set returned by findCombinedOwnerSet in an analysis
\* pass is an irredundant cover: when any one member is removed, there is a
\* changed file with owners that none of the remaining members owns.
C28_CombinedSetsAreIrredundant ==
    \A a \in { AnalyzeOwnership(analyzer) } :
        \A haveOwners \in { FilesHavingOwners(analyzer, analyzer.changedFiles) } :
            \A n \in 1..Len(a.result.combinedSets) :
                LET combination == a.result.combinedSets[n]
                IN  \A k \in 1..Len(combination) :
                        \E f \in haveOwners :
                            \A j \in (1..Len(combination)) \ {k} :
                                combination[j] \notin LastRuleOwners(analyzer, f)

\* a pass returns several combined sets chosen among three or more partial
\* owners, so that supersets of returned sets are among the candidates
C28_Witness ==
    \E m \in { MapOwnersToFiles(analyzer, analyzer.changedFiles, << >>) } :
        /\ Len(FindCombinedOwnerSet(m.this, m.ownerToFiles)) >= 2
        /\ Len(PartialOwners(m.this, m.ownerToFiles)) >= 3

\* C29: once the file list and the files counter of the page stop changing,
\* whatever the stable page is (any number of file elements including none,
\* any counter), a panel in its loading state is eventually replaced by
\* results or by an error message: from a loading state on a page, either
\* the page changes again or the loading state is replaced.
C29_LoadingIsReplaced ==
    \A pg \in UNION { ManyPages(layout) : layout \in { "react-app", "react-partial" } } :
        (panel.state = "loading" /\ page = pg)
            ~> (panel.state \in { "results", "error" } \/ page # pg)

\* C30: at any time at most one CodeOwnersAnalyzer instance has pending work
\* (mutation observer, retry or batch timer, updateUI in flight) that can
\* write into the panel: once initializeAnalyzer makes a new analyzer after
\* a navigation or re-enable, no earlier instance has work pending.
C30_OneInstancePending ==
    tab.pending <= 1

====
